---- MODULE Spec2Model ----
(***************************************************************************)
(* A model of the backus_naur_form_parser crate: grammar construction,     *)
(* the symbolization engine (symbolize_string / symbolize_vec /            *)
(* replace_ranges), and the compiler dispatch (compile_string /            *)
(* compile_token / compiles_to_root_token), under Spec; the methods of      *)
(* Token and NonTerminalToken on token trees, under TokenSpec; and the      *)
(* rule reader non_terminal_symbol_from_rule, under RuleSpec.               *)
(*                                                                         *)
(* A Rust String is modelled as the sequence of its characters, each a     *)
(* one-character TLA+ string.  Ranges are half-open and 0-based as in the  *)
(* source; vec[i] of the source is vec[i+1] here.                          *)
(***************************************************************************)
EXTENDS Integers, Sequences, FiniteSets, TLC

VARIABLES
    script,                  \* the construction program being run (index into Scripts)
    built,                   \* number of construction calls already made
    rules,                   \* BackusNaurForm.rules: Vec<(NonTerminalSymbol, usize)>
    compile_functions,       \* BackusNaurForm.compile_functions: HashMap<String, CompileFunction>
    pc,                      \* position of the running call
    input,                   \* the string passed to symbolize_string
    tokenized_string,        \* symbolize_string: the working Vec<Token>
    sorted_rules,            \* symbolize_string: the sorted clone of rules
    modified_this_iteration, \* symbolize_string: the flag of the outer loop
    idx,                     \* position of for_each in sorted_rules (1-based)
    recursive_ranges,        \* symbolize_vec: the ranges of the recursive loop
    rec_iters,               \* iterations of the recursive loop made in this symbolize_vec call
    compiled,                \* compile_string: the output collected so far
    next_token,              \* compile_string: position of the map over the top-level tokens
    calls,                   \* log of callback invocations: who invoked which label's callback
    root,                    \* result of compiles_to_root_token
    first_result,            \* the sequence an earlier symbolize_string call returned
    runs,                    \* symbolize_string calls made on this grammar
    pass_start,              \* the working sequence at the head of the running pass of the loop
    receiver,                \* the Token a method of Token / NonTerminalToken is called on
    token_index,             \* the TokenIndex argument of the call
    type_arg,             \* the &Symbol argument of the call
    method,                  \* the method that was called ("new" before the call)
    returned,                \* what the method returned
    rule_string,             \* the rule text passed to non_terminal_symbol_from_rule
    lexer,                   \* non_terminal_symbol_from_rule: its position and its locals
    given_vec,               \* the Vec passed to replace_ranges
    given_ranges,            \* the ranges passed to replace_ranges, in the order given
    replacing,               \* "new" before the call of replace_ranges, "replaced" after it
    replaced_vec             \* the Vec after the call, or that the call panicked

\* the grammar and the calls on it
engine_vars == <<script, built, rules, compile_functions, pc, input, tokenized_string,
                 sorted_rules, modified_this_iteration, idx, recursive_ranges, rec_iters,
                 compiled, next_token, calls, root, first_result, runs, pass_start>>

\* a token and a method call on it
token_vars == <<receiver, token_index, type_arg, method, returned>>

\* a rule text and the call that reads it
rule_vars == <<rule_string, lexer>>

\* a vector, ranges of it and the call that replaces them
range_vars == <<given_vec, given_ranges, replacing, replaced_vec>>

\* the values a specification of the grammar leaves alone
library_vars == <<token_vars, rule_vars, range_vars>>

vars == <<engine_vars, library_vars>>

----------------------------------------------------------------------------
(* Bounds of the model *)

\* longest input string drawn for every grammar
MaxLen == 4

\* iterations of the recursive loop of one symbolize_vec call the model follows
MaxRecIters == 6

----------------------------------------------------------------------------
(* Symbols and tokens *)

\* Symbol::Terminal
Terminal(s) == [k |-> "T", s |-> s]

\* Symbol::NonTerminal
NonTerminal(n) == [k |-> "N", s |-> n]

\* Token::from_terminal
from_terminal(terminal) == [t |-> "T", s |-> terminal, sub |-> <<>>]

\* Token::from_non_terminal
from_non_terminal(non_terminal_symbol, sub_tokens) ==
    [t |-> "N", s |-> non_terminal_symbol, sub |-> sub_tokens]

\* Token::is_terminal
is_terminal(token) == token.t = "T"

\* the comparison without the label: a non terminal symbol equals every node
TokenEqSymbol_any_node(token, symbol) ==
    IF symbol.k = "T"
    THEN (IF token.t = "T" THEN symbol.s = token.s ELSE FALSE)
    ELSE (IF token.t = "T" THEN FALSE ELSE TRUE)

\* impl PartialEq<Symbol> for Token
TokenEqSymbol(token, symbol) ==
    IF symbol.k = "T"
    THEN (IF token.t = "T" THEN symbol.s = token.s ELSE FALSE)
    ELSE (IF token.t = "T" THEN FALSE ELSE symbol.s = token.s)

\* the listing in post-order: a node after its own descendants
RECURSIVE get_descendant_tokens_post_order(_)
get_descendant_tokens_post_order(non_terminal) ==
    LET RECURSIVE flat_map(_)
        flat_map(i) ==
            IF i > Len(non_terminal.sub) THEN <<>>
            ELSE (IF non_terminal.sub[i].t = "T"
                  THEN <<non_terminal.sub[i]>>
                  ELSE get_descendant_tokens_post_order(non_terminal.sub[i])
                       \o <<non_terminal.sub[i]>>)
                 \o flat_map(i + 1)
    IN flat_map(1)

\* NonTerminalToken::get_descendant_tokens: left-to-right pre-order
RECURSIVE get_descendant_tokens(_)
get_descendant_tokens(non_terminal) ==
    LET RECURSIVE flat_map(_)
        flat_map(i) ==
            IF i > Len(non_terminal.sub) THEN <<>>
            ELSE (IF non_terminal.sub[i].t = "T"
                  THEN <<non_terminal.sub[i]>>
                  ELSE <<non_terminal.sub[i]>> \o get_descendant_tokens(non_terminal.sub[i]))
                 \o flat_map(i + 1)
    IN flat_map(1)

\* NonTerminalToken::get_terminals: the texts of the Terminals among the descendants
NonTerminalToken_get_terminals(non_terminal) ==
    LET d == get_descendant_tokens(non_terminal)
        terminals == SelectSeq(d, is_terminal)
    IN [i \in 1..Len(terminals) |-> terminals[i].s]

\* Token::get_terminals
get_terminals(token) ==
    IF token.t = "T" THEN <<token.s>> ELSE NonTerminalToken_get_terminals(token)

\* characterize_string: one Terminal per character
characterize_string(string) == [i \in 1..Len(string) |-> from_terminal(string[i])]

\* the text of a token sequence: get_terminals of every token, collected into a String
RECURSIVE Flatten(_)
Flatten(tokens) ==
    IF tokens = <<>> THEN <<>> ELSE get_terminals(Head(tokens)) \o Flatten(Tail(tokens))

----------------------------------------------------------------------------
(* Library operations on Vec *)

\* slice::sort_by_key: the stable ascending sort; key[i] is the key of s[i]
sort_by_key(s, key) ==
    LET pos(i) == Cardinality({j \in 1..Len(s) : key[j] < key[i]})
                  + Cardinality({j \in 1..(i - 1) : key[j] = key[i]}) + 1
    IN [p \in 1..Len(s) |-> s[CHOOSE i \in 1..Len(s) : pos(i) = p]]

\* slice::reverse
reverse(s) == [i \in 1..Len(s) |-> s[Len(s) + 1 - i]]

----------------------------------------------------------------------------
(* Range replacement *)

Range(start, end) == [start |-> start, end |-> end]

\* replace_range without `removed_elements.reverse()`: the removed elements stay in
\* the back-to-front order in which they were removed
replace_range_unreversed(vec, range, name) ==
    IF (range.start < range.end /\ range.end > Len(vec)) \/ range.start > Len(vec)
    THEN [ok |-> FALSE, vec |-> vec]
    ELSE LET removed_elements == reverse(SubSeq(vec, range.start + 1, range.end))
             kept_end == IF range.end > range.start THEN range.end ELSE range.start
         IN [ok  |-> TRUE,
             vec |-> SubSeq(vec, 1, range.start)
                     \o <<from_non_terminal(name, removed_elements)>>
                     \o SubSeq(vec, kept_end + 1, Len(vec))]

\* replace_range: removes vec[range] back to front and inserts the reducer's result,
\* the reducer being the closure symbolize_vec passes, Token::from_non_terminal(name, _);
\* Vec::remove and Vec::insert panic on an index past the end
replace_range(vec, range, name) ==
    IF (range.start < range.end /\ range.end > Len(vec)) \/ range.start > Len(vec)
    THEN [ok |-> FALSE, vec |-> vec]
    ELSE LET removed_elements == SubSeq(vec, range.start + 1, range.end)
             kept_end == IF range.end > range.start THEN range.end ELSE range.start
         IN [ok  |-> TRUE,
             vec |-> SubSeq(vec, 1, range.start)
                     \o <<from_non_terminal(name, removed_elements)>>
                     \o SubSeq(vec, kept_end + 1, Len(vec))]

\* the order without `ranges.reverse()`: leftmost range first
replace_order_ascending(ranges) ==
    sort_by_key(ranges, [i \in 1..Len(ranges) |-> ranges[i].start])

\* the order in which replace_ranges processes the ranges: sorted by start, reversed
replace_order(ranges) ==
    reverse(sort_by_key(ranges, [i \in 1..Len(ranges) |-> ranges[i].start]))

\* replace_ranges: sort by start, reverse, replace each range in that order
replace_ranges(vec, ranges, name) ==
    LET order == replace_order(ranges)
        RECURSIVE for_each(_, _)
        for_each(i, acc) ==
            IF i > Len(order) \/ ~acc.ok THEN acc
            ELSE for_each(i + 1, replace_range(acc.vec, order[i], name))
    IN for_each(1, [ok |-> TRUE, vec |-> vec])

----------------------------------------------------------------------------
(* NonTerminalSymbol *)

\* NonTerminalSymbol::new
NonTerminalSymbol(name, rule) == [name |-> name, rule |-> rule]

\* Vec::contains on a Choice
choice_contains(choice, symbol) == \E i \in 1..Len(choice) : choice[i] = symbol

\* the recursive choices without those that are only the reference to the symbol itself
get_recursive_choices_of_several(self) ==
    LET recursive(choice) == choice_contains(choice, NonTerminal(self.name)) /\ Len(choice) > 1
    IN SelectSeq(self.rule, recursive)

\* NonTerminalSymbol::get_recursive_choices
get_recursive_choices(self) ==
    LET recursive(choice) == choice_contains(choice, NonTerminal(self.name))
    IN SelectSeq(self.rule, recursive)

\* the non-recursive choices taken to be all the choices of the symbol
get_non_recursive_choices_all(self) == self.rule

\* NonTerminalSymbol::get_non_recursive_choices
get_non_recursive_choices(self) ==
    LET non_recursive(choice) == ~choice_contains(choice, NonTerminal(self.name))
    IN SelectSeq(self.rule, non_recursive)

\* `window == choice` for the window of tokenized_vec starting at 0-based index start
window_matches(tokenized_vec, choice, start) ==
    /\ start + Len(choice) <= Len(tokenized_vec)
    /\ \A j \in 1..Len(choice) : TokenEqSymbol(tokenized_vec[start + j], choice[j])

\* the ranges one choice contributes, in window order
ranges_of_choice(tokenized_vec, choice) ==
    LET n == Len(tokenized_vec) - Len(choice) + 1
        all == [i \in 1..(IF n > 0 THEN n ELSE 0) |-> Range(i - 1, i - 1 + Len(choice))]
        matching(r) == window_matches(tokenized_vec, choice, r.start)
    IN SelectSeq(all, matching)

\* get_ranges_from_choices that reads the first choice only
get_ranges_from_first_choice(tokenized_vec, choices) ==
    IF choices = <<>> THEN <<>> ELSE ranges_of_choice(tokenized_vec, choices[1])

\* NonTerminalSymbol::get_ranges_from_choices: flat_map over the choices in order
get_ranges_from_choices(tokenized_vec, choices) ==
    LET RECURSIVE flat_map(_)
        flat_map(c) ==
            IF c > Len(choices) THEN <<>>
            ELSE ranges_of_choice(tokenized_vec, choices[c]) \o flat_map(c + 1)
    IN flat_map(1)

\* the recursive choices taken never to match
get_ranges_of_no_recursive_symbolization(self, tokenized_vec) == <<>>

\* NonTerminalSymbol::get_ranges_of_possible_recursive_symbolization
get_ranges_of_possible_recursive_symbolization(self, tokenized_vec) ==
    get_ranges_from_choices(tokenized_vec, get_recursive_choices(self))

\* NonTerminalSymbol::get_ranges_of_possible_non_recursive_symbolization
get_ranges_of_possible_non_recursive_symbolization(self, tokenized_vec) ==
    get_ranges_from_choices(tokenized_vec, get_non_recursive_choices(self))

\* NonTerminalSymbol::get_ranges_of_possible_symbolization
get_ranges_of_possible_symbolization(self, tokenized_vec) ==
    get_ranges_from_choices(tokenized_vec, self.rule)

\* NonTerminalSymbol::further_symbolization_possible
further_symbolization_possible(self, tokenized_vec) ==
    get_ranges_of_possible_symbolization(self, tokenized_vec) # <<>>

----------------------------------------------------------------------------
(* Compile functions: the closures of tests::test_compile_string *)

\* char::to_digit(10)
digit_value(ch) ==
    CASE ch = "0" -> 0 [] ch = "1" -> 1 [] ch = "2" -> 2 [] ch = "3" -> 3 [] ch = "4" -> 4
      [] ch = "5" -> 5 [] ch = "6" -> 6 [] ch = "7" -> 7 [] ch = "8" -> 8 [] ch = "9" -> 9
      [] OTHER -> -1

\* str::parse::<usize>: an optional "+", then one or more decimal digits
parse_usize(string) ==
    LET digits == IF Len(string) > 1 /\ string[1] = "+" THEN Tail(string) ELSE string
        RECURSIVE value(_)
        value(n) == IF n = 0 THEN 0 ELSE 10 * value(n - 1) + digit_value(digits[n])
    IN IF digits # <<>> /\ \A i \in 1..Len(digits) : digit_value(digits[i]) >= 0
       THEN [ok |-> TRUE, value |-> value(Len(digits))]
       ELSE [ok |-> FALSE, value |-> 0]

\* usize::to_string
RECURSIVE to_string(_)
to_string(n) ==
    LET ch == <<"0", "1", "2", "3", "4", "5", "6", "7", "8", "9">>
    IN IF n < 10 THEN <<ch[n + 1]>> ELSE to_string(n \div 10) \o <<ch[(n % 10) + 1]>>

\* the literal "<here comes the operator>"
operator_literal ==
    <<"<", "h", "e", "r", "e", " ", "c", "o", "m", "e", "s", " ",
      "t", "h", "e", " ", "o", "p", "e", "r", "a", "t", "o", "r", ">">>

\* NonTerminalToken::get_child_tokens_of_type
get_child_tokens_of_type(non_terminal, symbol_type) ==
    LET of_type(sub_token) == TokenEqSymbol(sub_token, symbol_type)
    IN SelectSeq(non_terminal.sub, of_type)

\* the closure registered for "digit": parses the node's terminals and doubles them
double(token) ==
    LET parsed == parse_usize(NonTerminalToken_get_terminals(token))
    IN IF parsed.ok
       THEN [ok |-> TRUE, value |-> to_string(parsed.value * 2), calls |-> <<>>]
       ELSE [ok |-> FALSE, value |-> <<>>, calls |-> <<>>]

\* the closure the macro registers for "expression": doubles its child digits itself
join_doubled(token) ==
    LET digits == get_child_tokens_of_type(token, NonTerminal("digit"))
        parsed_and_doubled == [i \in 1..Len(digits) |-> double(digits[i])]
    IN IF digits = <<>> \/ \E i \in 1..Len(digits) : ~parsed_and_doubled[i].ok
       THEN [ok |-> FALSE, value |-> <<>>, calls |-> <<>>]
       ELSE [ok    |-> TRUE,
             value |-> parsed_and_doubled[1].value \o operator_literal
                       \o parsed_and_doubled[Len(digits)].value,
             calls |-> <<>>]

RECURSIVE compile_token(_, _, _)
RECURSIVE join_compiled(_, _)

\* the closure later registered for "expression": compiles its child digits with
\* bnf.compile_token and expects a compile function for each
join_compiled(functions, token) ==
    LET digits == get_child_tokens_of_type(token, NonTerminal("digit"))
        results == [i \in 1..Len(digits) |-> compile_token(functions, digits[i], "callback")]
        RECURSIVE log(_)
        log(i) == IF i > Len(digits) THEN <<>> ELSE results[i].calls \o log(i + 1)
    IN IF digits = <<>> \/ \E i \in 1..Len(digits) : ~results[i].ok \/ ~results[i].some
       THEN [ok |-> FALSE, value |-> <<>>, calls |-> log(1)]
       ELSE [ok    |-> TRUE,
             value |-> results[1].value \o operator_literal \o results[Len(digits)].value,
             calls |-> log(1)]

\* BackusNaurForm::compile_token: Some(f(non_terminal, self)) for the function
\* registered under the node's label, None without one; `by` names the caller in the log
compile_token(functions, non_terminal, by) ==
    LET name == non_terminal.s
    IN IF name \notin DOMAIN functions
       THEN [ok |-> TRUE, some |-> FALSE, value |-> <<>>, calls |-> <<>>]
       ELSE LET f == functions[name]
                r == CASE f = "double" -> double(non_terminal)
                       [] f = "join_doubled" -> join_doubled(non_terminal)
                       [] f = "join_compiled" -> join_compiled(functions, non_terminal)
            IN [ok    |-> r.ok,
                some  |-> TRUE,
                value |-> r.value,
                calls |-> <<[by |-> by, name |-> name]>> \o r.calls]

\* the closure of the map without the fallback: a node without a compile function
\* contributes nothing (unwrap_or_default for unwrap_or(get_terminals()))
compile_top_level_no_fallback(functions, token) ==
    IF token.t = "N"
    THEN LET r == compile_token(functions, token, "compile_string")
         IN [ok    |-> r.ok,
             value |-> IF r.some THEN r.value ELSE <<>>,
             calls |-> r.calls]
    ELSE [ok |-> TRUE, value |-> <<token.s>>, calls |-> <<>>]

\* the closure of the map descending by itself into a node without a compile
\* function: its children are compiled in turn
RECURSIVE compile_top_level_recursive(_, _)
compile_top_level_recursive(functions, token) ==
    IF token.t = "N"
    THEN LET r == compile_token(functions, token, "compile_string")
             children == [i \in 1..Len(token.sub) |->
                             compile_top_level_recursive(functions, token.sub[i])]
             RECURSIVE value(_)
             value(i) == IF i > Len(children) THEN <<>> ELSE children[i].value \o value(i + 1)
             RECURSIVE log(_)
             log(i) == IF i > Len(children) THEN <<>> ELSE children[i].calls \o log(i + 1)
         IN IF r.some
            THEN [ok |-> r.ok, value |-> r.value, calls |-> r.calls]
            ELSE [ok    |-> \A i \in 1..Len(children) : children[i].ok,
                  value |-> value(1),
                  calls |-> log(1)]
    ELSE [ok |-> TRUE, value |-> <<token.s>>, calls |-> <<>>]

\* the closure of the map in compile_string, applied to one top-level token
compile_top_level(functions, token) ==
    IF token.t = "N"
    THEN LET r == compile_token(functions, token, "compile_string")
         IN [ok    |-> r.ok,
             value |-> IF r.some THEN r.value ELSE NonTerminalToken_get_terminals(token),
             calls |-> r.calls]
    ELSE [ok |-> TRUE, value |-> <<token.s>>, calls |-> <<>>]

----------------------------------------------------------------------------
(* Token trees: path resolution, listing and search *)

\* Option::None
None == [some |-> FALSE]

\* Option::Some
Some(value) == [some |-> TRUE, value |-> value]

\* slice::get: None for an index past the end
Vec_get(vec, index) == IF index < Len(vec) THEN Some(vec[index + 1]) ELSE None

\* Iterator::find: the first element whose flag is set
find(vec, matches) ==
    IF \E i \in 1..Len(vec) : matches[i]
    THEN Some(vec[CHOOSE i \in 1..Len(vec) : matches[i] /\ \A j \in 1..(i - 1) : ~matches[j]])
    ELSE None

\* get_at_index answering with the Terminal a non-final step lands on
RECURSIVE get_at_index_stopping_at_terminal(_, _)
get_at_index_stopping_at_terminal(self, index) ==
    IF Len(index) = 1 THEN Vec_get(self.sub, index[1])
    ELSE IF Len(index) > 1
    THEN LET sub_token == Vec_get(self.sub, index[1])
         IN IF ~sub_token.some THEN None
            ELSE IF sub_token.value.t = "N"
            THEN get_at_index_stopping_at_terminal(sub_token.value, Tail(index))
            ELSE sub_token
    ELSE None

\* NonTerminalToken::get_at_index
RECURSIVE get_at_index(_, _)
get_at_index(self, index) ==
    IF Len(index) = 1 THEN Vec_get(self.sub, index[1])
    ELSE IF Len(index) > 1
    THEN LET sub_token == Vec_get(self.sub, index[1])
         IN IF ~sub_token.some THEN None
            ELSE IF sub_token.value.t = "N"
            THEN get_at_index(sub_token.value, Tail(index))
            ELSE None
    ELSE None

\* NonTerminalToken::get_at_index_mut
RECURSIVE get_at_index_mut(_, _)
get_at_index_mut(self, index) ==
    IF Len(index) = 1 THEN Vec_get(self.sub, index[1])
    ELSE IF Len(index) > 1
    THEN LET sub_token == Vec_get(self.sub, index[1])
         IN IF ~sub_token.some THEN None
            ELSE IF sub_token.value.t = "N"
            THEN get_at_index_mut(sub_token.value, Tail(index))
            ELSE None
    ELSE None

\* Token::get
Token_get(self, index) == IF self.t = "N" THEN get_at_index(self, index) ELSE None

\* Token::get_mut
Token_get_mut(self, index) == IF self.t = "N" THEN get_at_index_mut(self, index) ELSE None

\* impl PartialEq<Symbol> for TerminalToken
TerminalTokenEqSymbol(terminal, symbol) == symbol.k = "T" /\ symbol.s = terminal

\* NonTerminalToken::contains_child
contains_child(self, sub_token_type) ==
    \E i \in 1..Len(self.sub) : TokenEqSymbol(self.sub[i], sub_token_type)

\* NonTerminalToken::contains_descendant
RECURSIVE contains_descendant(_, _)
contains_descendant(self, sub_token_type) ==
    \E i \in 1..Len(self.sub) :
        \/ TokenEqSymbol(self.sub[i], sub_token_type)
        \/ IF self.sub[i].t = "N" THEN contains_descendant(self.sub[i], sub_token_type)
           ELSE FALSE

\* NonTerminalToken::find_child
find_child(self, sub_token_type) ==
    find(self.sub, [i \in 1..Len(self.sub) |-> TokenEqSymbol(self.sub[i], sub_token_type)])

\* the predicate of the find in find_descendant and find_descendant_mut
is_or_contains(sub_token, sub_token_type) ==
    \/ TokenEqSymbol(sub_token, sub_token_type)
    \/ IF sub_token.t = "T" THEN TerminalTokenEqSymbol(sub_token.s, sub_token_type)
       ELSE contains_descendant(sub_token, sub_token_type)

\* NonTerminalToken::find_descendant
find_descendant(self, sub_token_type) ==
    find(self.sub, [i \in 1..Len(self.sub) |-> is_or_contains(self.sub[i], sub_token_type)])

\* NonTerminalToken::find_descendant_mut
find_descendant_mut(self, sub_token_type) ==
    find(self.sub, [i \in 1..Len(self.sub) |-> is_or_contains(self.sub[i], sub_token_type)])

----------------------------------------------------------------------------
(* Rule text: non_terminal_symbol_from_rule *)

\* str::split_once("::="): the text before and after the first "::=", None without one
split_once(string) ==
    LET at == {i \in 1..(Len(string) - 2) :
                  string[i] = ":" /\ string[i + 1] = ":" /\ string[i + 2] = "="}
        first == CHOOSE i \in at : \A j \in at : i <= j
    IN IF at = {} THEN None
       ELSE Some([symbol_name |-> SubSeq(string, 1, first - 1),
                  expression  |-> SubSeq(string, first + 3, Len(string))])

\* str::trim: without the leading and the trailing whitespace
RECURSIVE trim(_)
trim(string) ==
    IF string = <<>> THEN <<>>
    ELSE IF Head(string) = " " THEN trim(Tail(string))
    ELSE IF string[Len(string)] = " " THEN trim(SubSeq(string, 1, Len(string) - 1))
    ELSE string

\* string[from..to], 0-based and half-open: a slice whose start is past its end or
\* whose end is past the string panics
slice(string, from, to) ==
    IF from > to \/ to > Len(string) THEN [ok |-> FALSE, text |-> <<>>]
    ELSE [ok |-> TRUE, text |-> SubSeq(string, from + 1, to)]

\* get_choice: the choice at choice_index, inserted empty when missing; Vec::insert
\* panics on an index past the end
get_choice(expr, choice_index) ==
    IF choice_index < Len(expr) THEN [ok |-> TRUE, expr |-> expr]
    ELSE IF choice_index = Len(expr) THEN [ok |-> TRUE, expr |-> Append(expr, <<>>)]
    ELSE [ok |-> FALSE, expr |-> expr]

\* get_choice(..).push(symbol)
push(expr, choice_index, symbol) ==
    LET choice == get_choice(expr, choice_index)
    IN IF ~choice.ok THEN choice
       ELSE [ok   |-> TRUE,
             expr |-> [choice.expr EXCEPT ![choice_index + 1] = Append(@, symbol)]]

----------------------------------------------------------------------------
(* The grammars: construction programs taken from the tests and the documentation *)

\* a choice per terminal: "a" | "b" | ...
one_of(terminals) == [i \in 1..Len(terminals) |-> <<Terminal(terminals[i])>>]

\* one entry of backus_naur_form! without a closure: add_non_terminal_symbol_from_rule
AddRule(name, rule, priority) ==
    [call |-> "add_non_terminal_symbol", name |-> name, rule |-> rule,
     priority |-> priority, f |-> ""]

\* a call of add_compile_function
AddFunction(name, f) ==
    [call |-> "add_compile_function", name |-> name, rule |-> <<>>, priority |-> 0, f |-> f]

digit_12 == one_of(<<"1", "2">>)

digit_123 == one_of(<<"1", "2", "3">>)

\* tests::test_priority
priority_grammar ==
    << AddRule("digit", digit_12, 0),
       AddRule("sum", << <<NonTerminal("digit"), Terminal("+"), NonTerminal("digit")>> >>, 0),
       AddRule("product", << <<NonTerminal("digit"), Terminal("*"), NonTerminal("digit")>> >>, 1) >>

\* tests::test_recursive_symbolization: <number> ::= <digit> | <number> <number>
number_array_grammar ==
    << AddRule("digit", digit_123, 0),
       AddRule("number", << <<NonTerminal("digit")>>,
                            <<NonTerminal("number"), NonTerminal("number")>> >>, 0) >>

\* the same grammar with <digit> at the higher priority: one pass collapses digit, then number
number_array_digit_first_grammar ==
    << AddRule("number", << <<NonTerminal("digit")>>,
                            <<NonTerminal("number"), NonTerminal("number")>> >>, 0),
       AddRule("digit", digit_123, 1) >>

\* module documentation, "Creating recursive rules": <token> ::= <token> <...>
number_left_grammar ==
    << AddRule("digit", digit_123, 0),
       AddRule("number", << <<NonTerminal("digit")>>,
                            <<NonTerminal("number"), NonTerminal("digit")>> >>, 0) >>

\* module documentation, "Creating recursive rules": <token> ::= <...> <token>
number_right_grammar ==
    << AddRule("digit", digit_123, 0),
       AddRule("number", << <<NonTerminal("digit")>>,
                            <<NonTerminal("digit"), NonTerminal("number")>> >>, 0) >>

expression_rule == << <<NonTerminal("digit"), NonTerminal("operator"), NonTerminal("digit")>> >>

\* the rules of tests::test_compile_string, no compile function
expression_grammar ==
    << AddRule("digit", digit_123, 0),
       AddRule("operator", one_of(<<"+", "-", "*", "/">>), 0),
       AddRule("expression", expression_rule, 0) >>

\* tests::test_compile_string as written: the macro's closure for <expression>, then
\* add_compile_function for "digit" and again for "expression"
compile_test_grammar ==
    << AddRule("digit", digit_123, 0),
       AddRule("operator", one_of(<<"+", "-", "*", "/">>), 0),
       AddFunction("expression", "join_doubled"),
       AddRule("expression", expression_rule, 0),
       AddFunction("digit", "double"),
       AddFunction("expression", "join_compiled") >>

\* the rules declared in another order, and the two closures for "expression"
\* registered in the other order around the registration for "digit"
reregistered_grammar ==
    << AddRule("expression", expression_rule, 0),
       AddFunction("expression", "join_compiled"),
       AddRule("operator", one_of(<<"+", "-", "*", "/">>), 0),
       AddFunction("digit", "double"),
       AddRule("digit", digit_123, 0),
       AddFunction("expression", "join_doubled") >>

\* the same rules with a compile function for "digit" only
digit_only_grammar == expression_grammar \o << AddFunction("digit", "double") >>

\* the same rules with the compiling closure for "expression" only
expression_only_grammar == expression_grammar \o << AddFunction("expression", "join_compiled") >>

\* a choice of three equal symbols: its windows overlap
triple_grammar ==
    << AddRule("digit", digit_12, 0),
       AddRule("triple", << <<NonTerminal("digit"), NonTerminal("digit"), NonTerminal("digit")>> >>, 0) >>

\* a choice that is only a reference to the symbol itself: <a> ::= "x" | <a>
self_unit_grammar ==
    << AddRule("a", << <<Terminal("x")>>, <<NonTerminal("a")>> >>, 0) >>

\* a recursive choice that ends in a terminal, <list> ::= "x" | <list> "y": it matches
\* again after each of its replacements
list_grammar ==
    << AddRule("list", << <<Terminal("x")>>, <<NonTerminal("list"), Terminal("y")>> >>, 0) >>

\* documentation of compiles_to_root_token, "Modified to return true"
syntax_grammar ==
    << AddRule("syntax", << <<NonTerminal("word"), NonTerminal("whitespace"), NonTerminal("word")>>,
                            <<NonTerminal("whitespace"), NonTerminal("word")>>,
                            <<NonTerminal("word"), NonTerminal("whitespace")>>,
                            <<NonTerminal("syntax"), NonTerminal("syntax")>> >>, 0),
       AddRule("word", << <<NonTerminal("letter")>>,
                          <<NonTerminal("word"), NonTerminal("word")>> >>, 0),
       AddRule("letter", one_of(<<"a", "b", "c", "d", "e", "f", "g", "h", "i", "j", "k", "l", "m",
                                  "n", "o", "p", "q", "r", "s", "t", "u", "v", "w", "x", "y",
                                  "z">>), 0),
       AddRule("whitespace", << <<Terminal(" ")>>,
                                <<NonTerminal("whitespace"), NonTerminal("whitespace")>> >>, 0) >>

\* documentation of symbolize_string and compiles_to_root_token, "A valid BackusNaurForm"
documented_expression_grammar ==
    << AddRule("expression",
               << <<NonTerminal("digit"), NonTerminal("operator"), NonTerminal("digit")>>,
                  <<NonTerminal("digit"), NonTerminal("operator"), NonTerminal("expression")>>,
                  <<NonTerminal("expression"), NonTerminal("operator"), NonTerminal("digit")>>,
                  <<NonTerminal("expression"), NonTerminal("operator"),
                    NonTerminal("expression")>> >>, 0),
       AddRule("digit", one_of(<<"1", "2", "3", "4", "5">>), 0),
       AddRule("operator", one_of(<<"+", "-", "*", "/">>), 0) >>

\* the String "2*4-4/5" of the documentation
documented_expression == <<"2", "*", "4", "-", "4", "/", "5">>

Script(entries, alphabet, extra) == [entries |-> entries, alphabet |-> alphabet, extra |-> extra]

\* every input a+b*c and a*b+c over the digits of tests::test_priority
sum_product_inputs ==
    {<<a, o[1], b, o[2], c>> : a \in {"1", "2"}, b \in {"1", "2"}, c \in {"1", "2"},
                               o \in {<<"+", "*">>, <<"*", "+">>}}

Scripts ==
    << Script(priority_grammar, {"1", "2", "+", "*"}, sum_product_inputs),
       Script(number_array_grammar, {"1", "2", "3", " "}, {}),
       Script(number_array_digit_first_grammar, {"1", "2", " "}, {}),
       Script(number_left_grammar, {"1", "2", "3"}, {}),
       Script(number_right_grammar, {"1", "2", "3"}, {}),
       Script(expression_grammar, {"2", "3", "+"}, {}),
       Script(compile_test_grammar, {"2", "3", "+"}, {}),
       Script(digit_only_grammar, {"2", "3", "+"}, {}),
       Script(expression_only_grammar, {"2", "3", "+"}, {}),
       Script(triple_grammar, {"1", "2", "x"}, {<<"1", "1", "1", "1", "x">>}),
       Script(self_unit_grammar, {"x", "y"}, {}),
       Script(reregistered_grammar, {"2", "3", "+"}, {}),
       Script(syntax_grammar, {"a", "b", " "}, {<<"a", "b", " ", "c", "d">>}),
       Script(documented_expression_grammar, {"2", "4", "-"}, {documented_expression}),
       Script(list_grammar, {"x", "y"}, {}) >>

\* the inputs drawn for a script: every string over its alphabet up to MaxLen, and its extras
Inputs(n) ==
    UNION {[1..len -> Scripts[n].alphabet] : len \in 0..MaxLen} \cup Scripts[n].extra

Entries == Scripts[script].entries

----------------------------------------------------------------------------
(* State machine *)

\* no method of a token has been called
TokenIdle ==
    /\ receiver = from_terminal("")
    /\ token_index = <<>>
    /\ type_arg = Terminal("")
    /\ method = "idle"
    /\ returned = None

\* no rule text is being read
RuleIdle ==
    /\ rule_string = <<>>
    /\ lexer = [pc |-> "idle"]

\* replace_ranges is not being called on its own
RangeIdle ==
    /\ given_vec = <<>>
    /\ given_ranges = <<>>
    /\ replacing = "idle"
    /\ replaced_vec = [ok |-> TRUE, vec |-> <<>>]

Init ==
    /\ script \in 1..Len(Scripts)
    /\ built = 0
    /\ rules = <<>>
    /\ compile_functions = <<>>
    /\ pc = "build"
    /\ input = <<>>
    /\ tokenized_string = <<>>
    /\ sorted_rules = <<>>
    /\ modified_this_iteration = FALSE
    /\ idx = 1
    /\ recursive_ranges = <<>>
    /\ rec_iters = 0
    /\ compiled = <<>>
    /\ next_token = 1
    /\ calls = <<>>
    /\ root = FALSE
    /\ first_result = <<>>
    /\ pass_start = <<>>
    /\ runs = 0
    /\ TokenIdle
    /\ RuleIdle
    /\ RangeIdle

\* an insertion that keeps the value already stored under the key
insert_keeping(map, key, value) ==
    [k \in DOMAIN map \cup {key} |-> IF k \in DOMAIN map THEN map[k] ELSE value]

\* HashMap::insert: the value under an existing key is overwritten
insert(map, key, value) ==
    [k \in DOMAIN map \cup {key} |-> IF k = key THEN value ELSE map[k]]

\* BackusNaurForm::add_compile_function
add_compile_function ==
    /\ pc = "build"
    /\ built < Len(Entries)
    /\ Entries[built + 1].call = "add_compile_function"
    /\ compile_functions' = insert(compile_functions, Entries[built + 1].name, Entries[built + 1].f)
    /\ built' = built + 1
    /\ UNCHANGED <<script, rules, pc, input, tokenized_string, sorted_rules,
                   modified_this_iteration, idx, recursive_ranges, rec_iters,
                   compiled, next_token, calls, root>>
    /\ UNCHANGED <<first_result, runs, pass_start>>
    /\ UNCHANGED library_vars

\* BackusNaurForm::add_non_terminal_symbol
add_non_terminal_symbol ==
    /\ pc = "build"
    /\ built < Len(Entries)
    /\ Entries[built + 1].call = "add_non_terminal_symbol"
    /\ rules' = Append(rules, [symbol   |-> NonTerminalSymbol(Entries[built + 1].name,
                                                              Entries[built + 1].rule),
                               priority |-> Entries[built + 1].priority])
    /\ built' = built + 1
    /\ UNCHANGED <<script, compile_functions, pc, input, tokenized_string, sorted_rules,
                   modified_this_iteration, idx, recursive_ranges, rec_iters,
                   compiled, next_token, calls, root>>
    /\ UNCHANGED <<first_result, runs, pass_start>>
    /\ UNCHANGED library_vars

\* the sorting without `sorted_rules.reverse()`: ascending priority
sort_rules_ascending(rs) == sort_by_key(rs, [i \in 1..Len(rs) |-> rs[i].priority])

\* symbolize_string, the sorting: sort_by_key(priority), then reverse
sort_rules(rs) == reverse(sort_by_key(rs, [i \in 1..Len(rs) |-> rs[i].priority]))

\* symbolize_string, up to the loop: characterize the string, sort the rules
symbolize_string ==
    /\ pc = "build"
    /\ built = Len(Entries)
    /\ \E string \in Inputs(script) :
        /\ input' = string
        /\ tokenized_string' = characterize_string(string)
    /\ sorted_rules' = sort_rules(rules)
    /\ pc' = "loop"
    /\ runs' = 1
    /\ UNCHANGED <<script, built, rules, compile_functions, modified_this_iteration, idx,
                   recursive_ranges, rec_iters, compiled, next_token, calls, root,
                   first_result, pass_start>>
    /\ UNCHANGED library_vars

\* symbolize_string called again on the same grammar, with the text of the sequence
\* the first call returned
symbolize_string_again ==
    /\ pc = "returned"
    /\ runs = 1
    /\ first_result' = tokenized_string
    /\ input' = Flatten(tokenized_string)
    /\ tokenized_string' = characterize_string(Flatten(tokenized_string))
    /\ sorted_rules' = sort_rules(rules)
    /\ runs' = 2
    /\ pc' = "loop"
    /\ UNCHANGED <<script, built, rules, compile_functions, modified_this_iteration, idx,
                   recursive_ranges, rec_iters, compiled, next_token, calls, root,
                   pass_start>>
    /\ UNCHANGED library_vars

\* symbolize_string, the head of the loop: a new pass over the sorted rules
begin_pass ==
    /\ pc = "loop"
    /\ modified_this_iteration' = FALSE
    /\ idx' = 1
    /\ pc' = IF Len(sorted_rules) = 0 THEN "end_of_pass" ELSE "check"
    /\ UNCHANGED <<script, built, rules, compile_functions, input, tokenized_string,
                   sorted_rules, recursive_ranges, rec_iters, compiled, next_token, calls, root>>
    /\ UNCHANGED <<first_result, runs>>
    /\ pass_start' = tokenized_string
    /\ UNCHANGED library_vars

\* symbolize_string, the closure of for_each: the check before symbolize_vec
check_further_symbolization ==
    /\ pc = "check"
    /\ modified_this_iteration' =
          IF further_symbolization_possible(sorted_rules[idx].symbol, tokenized_string)
          THEN TRUE ELSE modified_this_iteration
    /\ pc' = "non_recursive"
    /\ UNCHANGED <<script, built, rules, compile_functions, input, tokenized_string,
                   sorted_rules, idx, recursive_ranges, rec_iters, compiled, next_token,
                   calls, root>>
    /\ UNCHANGED <<first_result, runs, pass_start>>
    /\ UNCHANGED library_vars

\* symbolize_vec, the non recursive cases: one replace_ranges, then the first
\* recursive ranges
symbolize_vec_non_recursive ==
    /\ pc = "non_recursive"
    /\ LET self == sorted_rules[idx].symbol
           ranges == get_ranges_of_possible_non_recursive_symbolization(self, tokenized_string)
           r == replace_ranges(tokenized_string, ranges, self.name)
       IN IF r.ok
          THEN /\ tokenized_string' = r.vec
               /\ recursive_ranges' = get_ranges_of_possible_recursive_symbolization(self, r.vec)
               /\ pc' = "recursive"
          ELSE /\ pc' = "panicked"
               /\ UNCHANGED <<tokenized_string, recursive_ranges>>
    /\ rec_iters' = 0
    /\ UNCHANGED <<script, built, rules, compile_functions, input, sorted_rules,
                   modified_this_iteration, idx, compiled, next_token, calls, root>>
    /\ UNCHANGED <<first_result, runs, pass_start>>
    /\ UNCHANGED library_vars

\* symbolize_vec, one iteration of the recursive loop: replace, recompute, break when
\* no range is left; the break ends this symbol's turn in for_each
symbolize_vec_recursive ==
    /\ pc = "recursive"
    /\ rec_iters < MaxRecIters
    /\ LET self == sorted_rules[idx].symbol
           r == replace_ranges(tokenized_string, recursive_ranges, self.name)
           new_ranges == get_ranges_of_possible_recursive_symbolization(self, r.vec)
       IN IF r.ok
          THEN /\ tokenized_string' = r.vec
               /\ recursive_ranges' = new_ranges
               /\ IF new_ranges = <<>>
                  THEN /\ idx' = idx + 1
                       /\ pc' = IF idx + 1 > Len(sorted_rules) THEN "end_of_pass" ELSE "check"
                  ELSE /\ idx' = idx
                       /\ pc' = "recursive"
          ELSE /\ pc' = "panicked"
               /\ UNCHANGED <<tokenized_string, recursive_ranges, idx>>
    /\ rec_iters' = rec_iters + 1
    /\ UNCHANGED <<script, built, rules, compile_functions, input, sorted_rules,
                   modified_this_iteration, compiled, next_token, calls, root>>
    /\ UNCHANGED <<first_result, runs, pass_start>>
    /\ UNCHANGED library_vars

\* end_of_pass with the test of the flag inverted: breaks after a pass that modified
end_of_pass_inverted ==
    /\ pc = "end_of_pass"
    /\ pc' = IF modified_this_iteration THEN "returned" ELSE "loop"
    /\ UNCHANGED <<script, built, rules, compile_functions, input, tokenized_string,
                   sorted_rules, modified_this_iteration, idx, recursive_ranges, rec_iters,
                   compiled, next_token, calls, root>>
    /\ UNCHANGED <<first_result, runs, pass_start>>
    /\ UNCHANGED library_vars

\* symbolize_string, the end of the loop body: break unless the pass modified
end_of_pass ==
    /\ pc = "end_of_pass"
    /\ pc' = IF ~modified_this_iteration THEN "returned" ELSE "loop"
    /\ UNCHANGED <<script, built, rules, compile_functions, input, tokenized_string,
                   sorted_rules, modified_this_iteration, idx, recursive_ranges, rec_iters,
                   compiled, next_token, calls, root>>
    /\ UNCHANGED <<first_result, runs, pass_start>>
    /\ UNCHANGED library_vars

\* compile_string, the map over the symbolized string: one top-level token
compile_string_map ==
    /\ pc \in {"returned", "map"}
    /\ next_token <= Len(tokenized_string)
    /\ LET r == compile_top_level(compile_functions, tokenized_string[next_token])
       IN /\ calls' = calls \o r.calls
          /\ IF r.ok
             THEN /\ compiled' = compiled \o r.value
                  /\ next_token' = next_token + 1
                  /\ pc' = "map"
             ELSE /\ pc' = "panicked"
                  /\ UNCHANGED <<compiled, next_token>>
    /\ UNCHANGED <<script, built, rules, compile_functions, input, tokenized_string,
                   sorted_rules, modified_this_iteration, idx, recursive_ranges, rec_iters, root>>
    /\ UNCHANGED <<first_result, runs, pass_start>>
    /\ UNCHANGED library_vars

\* compile_string, collect: the String is returned
compile_string_collect ==
    /\ pc \in {"returned", "map"}
    /\ next_token > Len(tokenized_string)
    /\ pc' = "compiled"
    /\ UNCHANGED <<script, built, rules, compile_functions, input, tokenized_string,
                   sorted_rules, modified_this_iteration, idx, recursive_ranges, rec_iters,
                   compiled, next_token, calls, root>>
    /\ UNCHANGED <<first_result, runs, pass_start>>
    /\ UNCHANGED library_vars

\* compiles_to_root_token testing len() <= 1
compiles_to_root_token_at_most_one ==
    /\ pc = "returned"
    /\ root' = (Len(tokenized_string) <= 1)
    /\ pc' = "root_tested"
    /\ UNCHANGED <<script, built, rules, compile_functions, input, tokenized_string,
                   sorted_rules, modified_this_iteration, idx, recursive_ranges, rec_iters,
                   compiled, next_token, calls>>
    /\ UNCHANGED <<first_result, runs, pass_start>>
    /\ UNCHANGED library_vars

\* BackusNaurForm::compiles_to_root_token, on the vector symbolize_string returned
compiles_to_root_token ==
    /\ pc = "returned"
    /\ root' = (Len(tokenized_string) = 1)
    /\ pc' = "root_tested"
    /\ UNCHANGED <<script, built, rules, compile_functions, input, tokenized_string,
                   sorted_rules, modified_this_iteration, idx, recursive_ranges, rec_iters,
                   compiled, next_token, calls>>
    /\ UNCHANGED <<first_result, runs, pass_start>>
    /\ UNCHANGED library_vars

Next ==
    \/ add_compile_function
    \/ add_non_terminal_symbol
    \/ symbolize_string
    \/ symbolize_string_again
    \/ begin_pass
    \/ check_further_symbolization
    \/ symbolize_vec_non_recursive
    \/ symbolize_vec_recursive
    \/ end_of_pass
    \/ compile_string_map
    \/ compile_string_collect
    \/ compiles_to_root_token

Spec == Init /\ [][Next]_vars

\* where a symbolize_string call stands: the position in its code and the count of
\* iterations of the recursive loop; every step of the call changes it
position == <<pc, rec_iters>>

\* a symbolize_string call is running and can take its next step (the recursive loop
\* is followed for MaxRecIters iterations)
symbolize_string_running ==
    /\ pc \in {"loop", "check", "non_recursive", "recursive", "end_of_pass"}
    /\ pc = "recursive" => rec_iters < MaxRecIters

\* the running call moves on to some position
symbolize_step ==
    /\ symbolize_string_running
    /\ pc' \in {"loop", "check", "non_recursive", "recursive", "end_of_pass", "returned",
                "panicked"}
    /\ rec_iters' \in 0..MaxRecIters

\* a symbolize_string call that was made runs on: the code is sequential, its next
\* step is taken
FairSpec == Init /\ [][Next]_vars /\ WF_position(symbolize_step)

----------------------------------------------------------------------------
(* State machine of the token methods: a token is built, then one method is called *)

\* most tokens a tree is built of, the root included
MaxTokens == 5

\* the texts of the Terminals and the labels of the nodes the trees are built of
TokenTexts == {"x", "y"}

TokenLabels == {"a", "b"}

RECURSIVE TokensOfSize(_)
RECURSIVE SubTokensOfSize(_)

\* the sequences of sub tokens consisting of n tokens in all
SubTokensOfSize(n) ==
    IF n = 0 THEN {<<>>}
    ELSE UNION {{<<first>> \o rest : first \in TokensOfSize(k), rest \in SubTokensOfSize(n - k)} :
                k \in 1..n}

\* the trees Token::from_terminal and Token::from_non_terminal build of n tokens
TokensOfSize(n) ==
    (IF n = 1 THEN {from_terminal(text) : text \in TokenTexts} ELSE {})
    \cup {from_non_terminal(label, sub) : label \in TokenLabels, sub \in SubTokensOfSize(n - 1)}

Tokens == UNION {TokensOfSize(n) : n \in 1..MaxTokens}

\* the TokenIndex values tried on a token: the empty one, every path into the tree,
\* and every such path continued by an offset past the end or below a Terminal
RECURSIVE TokenIndexes(_)
TokenIndexes(of) ==
    {<<>>}
    \cup {<<Len(of.sub)>>, <<Len(of.sub), 0>>}
    \cup UNION {{<<i - 1>> \o rest : rest \in TokenIndexes(of.sub[i])} : i \in 1..Len(of.sub)}

\* the symbol references tried: of either kind, under every text and label and one more name
SymbolTypes ==
    {Terminal(name) : name \in TokenTexts \cup TokenLabels \cup {"z"}}
    \cup {NonTerminal(name) : name \in TokenTexts \cup TokenLabels \cup {"z"}}

\* no grammar is under construction
EngineIdle ==
    /\ script = 1
    /\ built = 0
    /\ rules = <<>>
    /\ compile_functions = <<>>
    /\ pc = "idle"
    /\ input = <<>>
    /\ tokenized_string = <<>>
    /\ sorted_rules = <<>>
    /\ modified_this_iteration = FALSE
    /\ idx = 1
    /\ recursive_ranges = <<>>
    /\ rec_iters = 0
    /\ compiled = <<>>
    /\ next_token = 1
    /\ calls = <<>>
    /\ root = FALSE
    /\ first_result = <<>>
    /\ pass_start = <<>>
    /\ runs = 0

TokenInit ==
    /\ EngineIdle
    /\ RuleIdle
    /\ RangeIdle
    /\ receiver \in Tokens
    /\ token_index = <<>>
    /\ type_arg = Terminal("")
    /\ method = "new"
    /\ returned = None

\* receiver.get(&token_index)
call_get ==
    /\ method = "new"
    /\ \E index \in TokenIndexes(receiver) :
        /\ token_index' = index
        /\ returned' = Token_get(receiver, index)
    /\ method' = "get"
    /\ UNCHANGED <<receiver, type_arg, engine_vars, rule_vars, range_vars>>

\* receiver.get_mut(token_index)
call_get_mut ==
    /\ method = "new"
    /\ \E index \in TokenIndexes(receiver) :
        /\ token_index' = index
        /\ returned' = Token_get_mut(receiver, index)
    /\ method' = "get_mut"
    /\ UNCHANGED <<receiver, type_arg, engine_vars, rule_vars, range_vars>>

\* non_terminal.get_descendant_tokens()
call_get_descendant_tokens ==
    /\ method = "new"
    /\ receiver.t = "N"
    /\ returned' = get_descendant_tokens(receiver)
    /\ method' = "get_descendant_tokens"
    /\ UNCHANGED <<receiver, token_index, type_arg, engine_vars, rule_vars, range_vars>>

\* non_terminal.get_terminals()
call_get_terminals ==
    /\ method = "new"
    /\ receiver.t = "N"
    /\ returned' = NonTerminalToken_get_terminals(receiver)
    /\ method' = "get_terminals"
    /\ UNCHANGED <<receiver, token_index, type_arg, engine_vars, rule_vars, range_vars>>

\* non_terminal.contains_descendant(&type_arg)
call_contains_descendant ==
    /\ method = "new"
    /\ receiver.t = "N"
    /\ \E sub_token_type \in SymbolTypes :
        /\ type_arg' = sub_token_type
        /\ returned' = contains_descendant(receiver, sub_token_type)
    /\ method' = "contains_descendant"
    /\ UNCHANGED <<receiver, token_index, engine_vars, rule_vars, range_vars>>

\* non_terminal.find_child(&type_arg)
call_find_child ==
    /\ method = "new"
    /\ receiver.t = "N"
    /\ \E sub_token_type \in SymbolTypes :
        /\ type_arg' = sub_token_type
        /\ returned' = find_child(receiver, sub_token_type)
    /\ method' = "find_child"
    /\ UNCHANGED <<receiver, token_index, engine_vars, rule_vars, range_vars>>

\* non_terminal.find_descendant(&type_arg)
call_find_descendant ==
    /\ method = "new"
    /\ receiver.t = "N"
    /\ \E sub_token_type \in SymbolTypes :
        /\ type_arg' = sub_token_type
        /\ returned' = find_descendant(receiver, sub_token_type)
    /\ method' = "find_descendant"
    /\ UNCHANGED <<receiver, token_index, engine_vars, rule_vars, range_vars>>

\* non_terminal.find_descendant_mut(&type_arg)
call_find_descendant_mut ==
    /\ method = "new"
    /\ receiver.t = "N"
    /\ \E sub_token_type \in SymbolTypes :
        /\ type_arg' = sub_token_type
        /\ returned' = find_descendant_mut(receiver, sub_token_type)
    /\ method' = "find_descendant_mut"
    /\ UNCHANGED <<receiver, token_index, engine_vars, rule_vars, range_vars>>

TokenNext ==
    \/ call_get
    \/ call_get_mut
    \/ call_get_descendant_tokens
    \/ call_get_terminals
    \/ call_contains_descendant
    \/ call_find_child
    \/ call_find_descendant
    \/ call_find_descendant_mut

TokenSpec == TokenInit /\ [][TokenNext]_vars

----------------------------------------------------------------------------
(* State machine of non_terminal_symbol_from_rule: a rule text is read character *)
(* by character                                                                *)

\* longest right-hand side of the rule texts
MaxExpressionLen == 4

\* the characters the right-hand sides are made of
RuleChars == {"\"", "<", ">", "|", "b", " "}

\* the left-hand sides: a name in angle brackets, bare or padded, and texts too short
\* to hold the brackets
RuleNames == {<<"<", "a", ">">>, <<" ", "<", "a", ">", " ">>, <<"a">>, <<" ">>}

\* the operator, and a text that is not the operator
RuleOperators == {<<":", ":", "=">>, <<":", "=">>}

RuleStrings ==
    {name \o operator \o expression :
        name \in RuleNames, operator \in RuleOperators,
        expression \in UNION {[1..len -> RuleChars] : len \in 0..MaxExpressionLen}}

RuleInit ==
    /\ EngineIdle
    /\ TokenIdle
    /\ RangeIdle
    /\ rule_string \in RuleStrings
    /\ lexer = [pc |-> "called"]

\* the locals of non_terminal_symbol_from_rule before the loop
scanning(symbol_name, expression) ==
    [pc                          |-> "scan",
     symbol_name                 |-> symbol_name,
     expression                  |-> expression,
     index                       |-> 0,
     in_string                   |-> FALSE,
     last_string_indice          |-> 0,
     last_opening_bracket_indice |-> 0,
     symbolized_expression       |-> <<>>,
     choice_index                |-> 0]

\* non_terminal_symbol_from_rule up to the loop: split at "::=", trim the name, remove
\* its first and last character
split_rule ==
    /\ lexer.pc = "called"
    /\ LET parts == split_once(rule_string)
           symbol_name == trim(parts.value.symbol_name)
           name == slice(symbol_name, 1, Len(symbol_name) - 1)
       IN lexer' = IF ~parts.some THEN [pc |-> "panicked"]
                   ELSE IF ~name.ok THEN [pc |-> "panicked"]
                   ELSE scanning(name.text, parts.value.expression)
    /\ UNCHANGED <<rule_string, engine_vars, token_vars, range_vars>>

\* the character char_indices is at
current_char == lexer.expression[lexer.index + 1]

\* the loop is at a character
at_character == lexer.pc = "scan" /\ lexer.index < Len(lexer.expression)

\* '"' if !in_string
opening_double_quote ==
    /\ at_character
    /\ current_char = "\"" /\ ~lexer.in_string
    /\ lexer' = [lexer EXCEPT !.last_string_indice = lexer.index,
                              !.in_string = TRUE,
                              !.index = lexer.index + 1]
    /\ UNCHANGED <<rule_string, engine_vars, token_vars, range_vars>>

\* '"' if in_string
closing_double_quote ==
    /\ at_character
    /\ current_char = "\"" /\ lexer.in_string
    /\ LET text == slice(lexer.expression, lexer.last_string_indice + 1, lexer.index)
           pushed == push(lexer.symbolized_expression, lexer.choice_index, Terminal(text.text))
       IN lexer' = IF ~pushed.ok \/ ~text.ok THEN [pc |-> "panicked"]
                   ELSE [lexer EXCEPT !.symbolized_expression = pushed.expr,
                                      !.in_string = FALSE,
                                      !.index = lexer.index + 1]
    /\ UNCHANGED <<rule_string, engine_vars, token_vars, range_vars>>

\* '<' if !in_string
opening_bracket ==
    /\ at_character
    /\ current_char = "<" /\ ~lexer.in_string
    /\ lexer' = [lexer EXCEPT !.last_opening_bracket_indice = lexer.index,
                              !.index = lexer.index + 1]
    /\ UNCHANGED <<rule_string, engine_vars, token_vars, range_vars>>

\* '>', the arm without a guard
closing_bracket ==
    /\ at_character
    /\ current_char = ">"
    /\ LET text == slice(lexer.expression, lexer.last_opening_bracket_indice + 1, lexer.index)
           pushed == push(lexer.symbolized_expression, lexer.choice_index,
                          NonTerminal(text.text))
       IN lexer' = IF ~pushed.ok \/ ~text.ok THEN [pc |-> "panicked"]
                   ELSE [lexer EXCEPT !.symbolized_expression = pushed.expr,
                                      !.index = lexer.index + 1]
    /\ UNCHANGED <<rule_string, engine_vars, token_vars, range_vars>>

\* '|' if !in_string
choice_symbol ==
    /\ at_character
    /\ current_char = "|" /\ ~lexer.in_string
    /\ lexer' = [lexer EXCEPT !.choice_index = lexer.choice_index + 1,
                              !.index = lexer.index + 1]
    /\ UNCHANGED <<rule_string, engine_vars, token_vars, range_vars>>

\* _ => (): every other character, and '<' and '|' inside a string
other_character ==
    /\ at_character
    /\ \/ current_char \notin {"\"", "<", ">", "|"}
       \/ current_char \in {"<", "|"} /\ lexer.in_string
    /\ lexer' = [lexer EXCEPT !.index = lexer.index + 1]
    /\ UNCHANGED <<rule_string, engine_vars, token_vars, range_vars>>

\* the end of the loop: NonTerminalSymbol::new(symbol_name, symbolized_expression)
return_symbol ==
    /\ lexer.pc = "scan"
    /\ lexer.index = Len(lexer.expression)
    /\ lexer' = [pc     |-> "returned",
                 symbol |-> NonTerminalSymbol(lexer.symbol_name, lexer.symbolized_expression)]
    /\ UNCHANGED <<rule_string, engine_vars, token_vars, range_vars>>

RuleNext ==
    \/ split_rule
    \/ opening_double_quote
    \/ closing_double_quote
    \/ opening_bracket
    \/ closing_bracket
    \/ choice_symbol
    \/ other_character
    \/ return_symbol

RuleSpec == RuleInit /\ [][RuleNext]_vars

----------------------------------------------------------------------------
(* State machine of replace_ranges called on its own: a vector and ranges are     *)
(* given, then replaced                                                         *)

\* longest vector given to replace_ranges
MaxVecLen == 4

\* most ranges given in one call
MaxRanges == 3

\* the elements of the given vectors, all different
VecElements == <<"1", "2", "3", "4", "5", "6", "7", "8">>

\* the label the reducer gives its node
reducer_name == "replaced"

\* the ranges start..end with start <= end that end at most one past the vector
RangesOn(len) ==
    {r \in {Range(start, end) : start \in 0..(len + 1), end \in 0..(len + 1)} :
        r.start <= r.end}

\* the sequences of at most MaxRanges different ranges, in every order
RangeVecs(len) ==
    UNION {{ranges \in [1..n -> RangesOn(len)] :
               \A i, j \in 1..n : i # j => ranges[i] # ranges[j]} : n \in 0..MaxRanges}

RangeInit ==
    /\ EngineIdle
    /\ TokenIdle
    /\ RuleIdle
    /\ \E len \in 0..MaxVecLen :
        /\ given_vec = characterize_string(SubSeq(VecElements, 1, len))
        /\ given_ranges \in RangeVecs(len)
    /\ replacing = "new"
    /\ replaced_vec = [ok |-> TRUE, vec |-> <<>>]

\* replace_ranges(&mut vec, &mut ranges, replace_with)
call_replace_ranges ==
    /\ replacing = "new"
    /\ replaced_vec' = replace_ranges(given_vec, given_ranges, reducer_name)
    /\ replacing' = "replaced"
    /\ UNCHANGED <<given_vec, given_ranges, engine_vars, token_vars, rule_vars>>

RangeNext == call_replace_ranges

RangeSpec == RangeInit /\ [][RangeNext]_vars

----------------------------------------------------------------------------
(* Vocabulary of the properties *)

\* symbolize_string is running or has returned: tokenized_string is its working sequence
Symbolizing ==
    pc \in {"loop", "check", "non_recursive", "recursive", "end_of_pass", "returned"}

\* a symbol reference matches a token: by text for a Terminal, by label for a Node
SymbolMatches(symbol, token) == symbol.k = token.t /\ symbol.s = token.s

\* some contiguous window of tokens matches the choice element-wise
HasWindow(tokens, choice) ==
    \E start \in 0..(Len(tokens) - Len(choice)) :
        \A j \in 1..Len(choice) : SymbolMatches(choice[j], tokens[start + j])

\* some window of tokens matches some choice of the symbol
SymbolHasWindow(tokens, symbol) ==
    \E c \in 1..Len(symbol.rule) : HasWindow(tokens, symbol.rule[c])

\* no window of tokens matches any choice of any registered symbol
Fixpoint(tokens) ==
    \A r \in 1..Len(rules) : ~SymbolHasWindow(tokens, rules[r].symbol)

----------------------------------------------------------------------------
(* C1 *)

\* C1 (round-trip): in every state of symbolize_string, after any number of range
\* replacements, the terminal texts of the working sequence concatenated left to
\* right are the input string; so the returned sequence flattens to the input, and
\* for the empty input it is empty.
C1_RoundTrip ==
    /\ Symbolizing => Flatten(tokenized_string) = input
    /\ (pc = "returned" /\ input = <<>>) => tokenized_string = <<>>

\* a returned sequence in which windows of several tokens were collapsed into nodes
C1_Witness ==
    /\ pc = "returned"
    /\ Len(input) >= 3
    /\ Len(tokenized_string) < Len(input)

----------------------------------------------------------------------------
(* C2 *)

\* the steps of the outer loop: the flag records whether some symbol had a matching
\* window at its turn in this pass, and the loop stops after a pass exactly if none had
C2_LoopStep ==
    /\ pc = "loop" => modified_this_iteration' = FALSE
    /\ pc = "check" =>
          modified_this_iteration' =
              (modified_this_iteration
               \/ SymbolHasWindow(tokenized_string, sorted_rules[idx].symbol))
    /\ pc \in {"non_recursive", "recursive", "end_of_pass"} =>
          modified_this_iteration' = modified_this_iteration
    /\ pc = "end_of_pass" => (pc' = "returned" <=> ~modified_this_iteration)
    /\ pc' = "returned" => pc \in {"end_of_pass", "returned"}

\* C2 (fixpoint at return): whenever symbolize_string returns, no contiguous window
\* of the returned top-level sequence matches any choice, recursive or not, of any
\* registered symbol; the outer loop stops exactly after the first full pass in
\* which no symbol had a matching window at its turn.
C2_FixpointAtReturn ==
    /\ [](pc = "returned" => Fixpoint(tokenized_string))
    /\ [][C2_LoopStep]_vars

\* a return after at least one productive pass, with tokens left at top level
C2_Witness ==
    /\ pc = "returned"
    /\ Len(tokenized_string) >= 2
    /\ \E i \in 1..Len(tokenized_string) : tokenized_string[i].t = "N"
    /\ \E i \in 1..Len(tokenized_string) : tokenized_string[i].t = "T"

----------------------------------------------------------------------------
(* C3 *)

\* the symbol for_each is at: checked, then collapsed by symbolize_vec
Visiting == pc \in {"check", "non_recursive", "recursive"}

\* sorted_rules holds every registered rule once, highest priority first
C3_SortedByPriority ==
    /\ Len(sorted_rules) = Len(rules)
    /\ \E perm \in [1..Len(rules) -> 1..Len(rules)] :
          /\ \A i, j \in 1..Len(rules) : i # j => perm[i] # perm[j]
          /\ \A i \in 1..Len(rules) : sorted_rules[i] = rules[perm[i]]
    /\ \A i, j \in 1..Len(sorted_rules) :
          i < j => sorted_rules[i].priority >= sorted_rules[j].priority

\* a pass visits sorted_rules front to back, one symbol after the other, and the
\* order never changes between passes
C3_VisitStep ==
    /\ Symbolizing => sorted_rules' = sorted_rules
    /\ (pc = "loop" /\ pc' = "check") => idx' = 1
    /\ (pc = "check" \/ pc = "non_recursive") => (idx' = idx /\ pc' # "end_of_pass")
    /\ (pc = "recursive" /\ pc' = "check") =>
          /\ idx' = idx + 1
          /\ sorted_rules[idx'].priority <= sorted_rules[idx].priority
    /\ (pc = "recursive" /\ pc' = "end_of_pass") => idx = Len(sorted_rules)
    /\ pc' = "check" => pc \in {"loop", "recursive", "check"}

\* C3 (priority ordering of processing): in every full pass of symbolize_string the
\* symbols are visited in non-increasing priority order, every symbol of a priority
\* being checked and collapsed before any symbol of a lower priority, and the
\* visiting order is the same in every pass.
C3_PriorityOrder ==
    /\ [](Symbolizing => C3_SortedByPriority)
    /\ [](Visiting => idx \in 1..Len(sorted_rules))
    /\ [][C3_VisitStep]_vars

\* a second or later symbol of a pass is being visited, of a lower priority than the first
C3_Witness ==
    /\ Visiting
    /\ idx > 1
    /\ sorted_rules[idx].priority < sorted_rules[1].priority
    /\ Len(tokenized_string) < Len(input)

----------------------------------------------------------------------------
(* C4 *)

\* C4 (tie-break among equal priorities), as claimed: two symbols registered with
\* the same priority are visited in their registration order in every pass, the one
\* added earlier before the one added later.
C4_DeclarationOrderAmongTies ==
    Symbolizing =>
        \A i, j \in 1..Len(rules) :
            (i < j /\ rules[i].priority = rules[j].priority) =>
                \E a, b \in 1..Len(sorted_rules) :
                    /\ a < b
                    /\ sorted_rules[a] = rules[i]
                    /\ sorted_rules[b] = rules[j]

----------------------------------------------------------------------------
(* C5 *)

digit_token(ch) == from_non_terminal("digit", <<from_terminal(ch)>>)

product_token(a, b) ==
    from_non_terminal("product", <<digit_token(a), from_terminal("*"), digit_token(b)>>)

\* a node labelled name occurs in the tokens, at top level or below
RECURSIVE ContainsLabel(_, _)
ContainsLabel(tokens, name) ==
    \E i \in 1..Len(tokens) :
        /\ tokens[i].t = "N"
        /\ (tokens[i].s = name \/ ContainsLabel(tokens[i].sub, name))

\* C5 (higher priority wins): with digit (priority 0), sum (priority 0) and product
\* (priority 1) declared in this order, every input a*b returns exactly the one token
\* product(digit(a), "*", digit(b)), and for every input a+b*c the digits b and c
\* are consumed by a product node and never, in any state, by a sum node.
C5_HigherPriorityWins ==
    (Entries = priority_grammar /\ Symbolizing) =>
        \A a, b \in {"1", "2"} :
            /\ (input = <<a, "*", b>> /\ pc = "returned") =>
                  tokenized_string = <<product_token(a, b)>>
            /\ \A c \in {"1", "2"} :
                  input = <<a, "+", b, "*", c>> =>
                      /\ ~ContainsLabel(tokenized_string, "sum")
                      /\ pc = "returned" =>
                            tokenized_string =
                                <<digit_token(a), from_terminal("+"), product_token(b, c)>>

\* a+b*c has returned with b*c inside a product
C5_Witness ==
    /\ Entries = priority_grammar
    /\ pc = "returned"
    /\ input = <<"1", "+", "2", "*", "1">>
    /\ ContainsLabel(tokenized_string, "product")

----------------------------------------------------------------------------
(* C6 *)

number_of_digit(ch) == from_non_terminal("number", <<digit_token(ch)>>)

IsNumberNode(token) == token.t = "N" /\ token.s = "number"

\* the top-level sequence has one number node per maximal run of digits, covering
\* the run, and the other characters as terminals
OneNumberPerRun(tokens) ==
    /\ Flatten(tokens) = input
    /\ \A i \in 1..Len(tokens) :
          \/ tokens[i].t = "T" /\ tokens[i].s \notin {"1", "2", "3"}
          \/ /\ IsNumberNode(tokens[i])
             /\ \A k \in 1..Len(get_terminals(tokens[i])) :
                   get_terminals(tokens[i])[k] \in {"1", "2", "3"}
    /\ \A i \in 1..(Len(tokens) - 1) : ~(IsNumberNode(tokens[i]) /\ IsNumberNode(tokens[i + 1]))

\* the shape of the number node of a run of one or two digits
SmallRunShape(token) ==
    LET text == get_terminals(token)
    IN /\ Len(text) = 1 => token = number_of_digit(text[1])
       /\ Len(text) = 2 =>
             token = from_non_terminal("number",
                         <<number_of_digit(text[1]), number_of_digit(text[2])>>)

\* digit and then number have been collapsed
C6_Collapsed ==
    \/ pc = "returned"
    \/ Entries = number_array_digit_first_grammar /\ pc = "end_of_pass"

\* C6 (recursive-array rule shape): with digit ::= "1" | "2" | "3" and
\* number ::= digit | number number, collapsing digit and then number turns every
\* run of adjacent digits into exactly one top-level number node covering the run,
\* number(number(digit(a)), number(digit(b))) for a run of two, and leaves the
\* characters between the runs as terminals; no replacement aborts on the way.
C6_RecursiveArrayShape ==
    Entries \in {number_array_grammar, number_array_digit_first_grammar} =>
        /\ pc # "panicked"
        /\ C6_Collapsed =>
              /\ OneNumberPerRun(tokenized_string)
              /\ \A i \in 1..Len(tokenized_string) :
                    IsNumberNode(tokenized_string[i]) => SmallRunShape(tokenized_string[i])

\* "12 3" has been collapsed into number, " ", number
C6_Witness ==
    /\ Entries = number_array_grammar
    /\ pc = "returned"
    /\ input = <<"1", "2", " ", "3">>
    /\ Len(tokenized_string) = 3
    /\ Len(tokenized_string[1].sub) = 2

----------------------------------------------------------------------------
(* C7 *)

----------------------------------------------------------------------------
(* C8 *)

\* compile_string is mapping the returned sequence, or has returned its String
Compiling == pc \in {"map", "compiled"}

\* the top-level tokens compile_string has mapped so far
Mapped == SubSeq(tokenized_string, 1, next_token - 1)

\* what the compile function registered under the node's label returns for the node
CallbackValue(token) ==
    LET f == compile_functions[token.s]
    IN CASE f = "double" -> double(token).value
         [] f = "join_doubled" -> join_doubled(token).value
         [] f = "join_compiled" -> join_compiled(compile_functions, token).value

\* the contribution of one top-level token
ExpectedPiece(token) ==
    IF token.t = "T" THEN <<token.s>>
    ELSE IF token.s \in DOMAIN compile_functions THEN CallbackValue(token)
    ELSE Flatten(<<token>>)

RECURSIVE ExpectedOutput(_)
ExpectedOutput(tokens) ==
    IF tokens = <<>> THEN <<>> ELSE ExpectedPiece(Head(tokens)) \o ExpectedOutput(Tail(tokens))

\* the String "4<here comes the operator>6"
C8_DoubledAndJoined ==
    <<"4", "<", "h", "e", "r", "e", " ", "c", "o", "m", "e", "s", " ",
      "t", "h", "e", " ", "o", "p", "e", "r", "a", "t", "o", "r", ">", "6">>

\* C8 (compile_string dispatch): the output is the in-order concatenation, over the
\* top-level tokens of the symbolized string, of the text of a Terminal, of the
\* return value of the compile function registered under the label of a Node that
\* has one, and of the flattened terminal text of a Node that has none; with the
\* functions of tests::test_compile_string "2+3" compiles to
\* "4<here comes the operator>6".
C8_CompileDispatch ==
    Compiling =>
        /\ compiled = ExpectedOutput(Mapped)
        /\ pc = "compiled" => Mapped = tokenized_string
        /\ (Entries = compile_test_grammar /\ input = <<"2", "+", "3">> /\ pc = "compiled") =>
              compiled = C8_DoubledAndJoined

\* "2+3" has been compiled by the function of expression, which compiled both digits
C8_Witness ==
    /\ Entries = compile_test_grammar
    /\ pc = "compiled"
    /\ input = <<"2", "+", "3">>
    /\ Len(calls) = 3

----------------------------------------------------------------------------
(* C9 *)

\* the labels whose compile function compile_string itself invoked, in order
DirectCalls ==
    LET direct(call) == call.by = "compile_string"
        made == SelectSeq(calls, direct)
    IN [i \in 1..Len(made) |-> made[i].name]

\* the labels of the mapped top-level nodes that have a compile function, in order
TopLevelCompiled ==
    LET registered(token) == token.t = "N" /\ token.s \in DOMAIN compile_functions
        nodes == SelectSeq(Mapped, registered)
    IN [i \in 1..Len(nodes) |-> nodes[i].s]

\* C9 (no automatic recursion in compile): compile_string invokes compile functions
\* for top-level tokens only, once for each top-level node whose label has one and
\* never for a descendant; with a function for digit only, "2+3", one top-level
\* expression, compiles to the verbatim "2+3" without any invocation.
C9_NoAutomaticRecursion ==
    Compiling =>
        /\ DirectCalls = TopLevelCompiled
        /\ (Entries = digit_only_grammar /\ input = <<"2", "+", "3">> /\ pc = "compiled") =>
              /\ Len(tokenized_string) = 1
              /\ compiled = <<"2", "+", "3">>
              /\ calls = <<>>

\* "2+3" has been compiled with a function for digit only
C9_Witness ==
    /\ Entries = digit_only_grammar
    /\ pc = "compiled"
    /\ input = <<"2", "+", "3">>
    /\ tokenized_string[1].s = "expression"

----------------------------------------------------------------------------
(* C10 *)

\* C10 (has_single_root): compiles_to_root_token is true if and only if
\* symbolize_string returned a sequence of length exactly 1; it is false for the
\* empty input and for an input that leaves two or more top-level tokens.
C10_SingleRoot ==
    pc = "root_tested" =>
        /\ root <=> Len(tokenized_string) = 1
        /\ input = <<>> => ~root
        /\ Len(tokenized_string) >= 2 => ~root

\* an input of several characters was found to have a root token
C10_Witness ==
    /\ pc = "root_tested"
    /\ root
    /\ Len(input) >= 3

----------------------------------------------------------------------------
(* C11 *)

\* C11 (idempotence of full collapse): when symbolize_string has returned and is run
\* again, under the same grammar, on the flattened text of its result, the second
\* call works on the same text as the first and returns a token sequence equal in
\* structure to the first result.
C11_Idempotent ==
    runs = 2 =>
        /\ input = Flatten(first_result)
        /\ pc = "returned" => tokenized_string = first_result

\* the second call has returned a sequence with nested nodes
C11_Witness ==
    /\ runs = 2
    /\ pc = "returned"
    /\ \E i \in 1..Len(first_result) :
          /\ first_result[i].t = "N"
          /\ Len(first_result[i].sub) >= 2
          /\ \E j \in 1..Len(first_result[i].sub) : first_result[i].sub[j].t = "N"

----------------------------------------------------------------------------
(* C12 *)

\* the construction call, among those made so far, that last registered a compile
\* function under the label; 0 if none did
LastRegistration(name) ==
    LET made == {i \in 1..built : /\ Entries[i].call = "add_compile_function"
                                  /\ Entries[i].name = name}
    IN IF made = {} THEN 0 ELSE CHOOSE i \in made : \A j \in made : j <= i

\* the labels the construction program names
Labels == {Entries[i].name : i \in 1..Len(Entries)}

\* what the closure f returns for the node
ResultOf(f, token) ==
    CASE f = "double" -> double(token)
      [] f = "join_doubled" -> join_doubled(token)
      [] f = "join_compiled" -> join_compiled(compile_functions, token)

\* the nodes of a token sequence, at top level and below
NodesOf(tokens) ==
    LET nodes(token) == IF token.t = "T" THEN {}
                        ELSE {token} \cup {d \in {get_descendant_tokens(token)[k] :
                                                    k \in 1..Len(get_descendant_tokens(token))} :
                                              d.t = "N"}
    IN UNION {nodes(tokens[i]) : i \in 1..Len(tokens)}

\* C12 (last callback registration wins): after any sequence of add_compile_function
\* and add_non_terminal_symbol calls the function stored under a label is the one
\* most recently registered under it, whatever was registered under other labels
\* and in whatever order the rules were declared; compile_token on a node returns
\* that function's result, and None for a label nothing was registered under.
C12_LastRegistrationWins ==
    /\ \A name \in Labels :
          /\ LastRegistration(name) = 0 => name \notin DOMAIN compile_functions
          /\ LastRegistration(name) > 0 =>
                /\ name \in DOMAIN compile_functions
                /\ compile_functions[name] = Entries[LastRegistration(name)].f
    /\ pc = "returned" =>
          \A node \in NodesOf(tokenized_string) :
              LET r == compile_token(compile_functions, node, "client")
                  last == LastRegistration(node.s)
              IN /\ r.some <=> last > 0
                 /\ last > 0 =>
                       /\ r.ok = ResultOf(Entries[last].f, node).ok
                       /\ r.value = ResultOf(Entries[last].f, node).value

\* an expression node has been returned under a grammar that registered two
\* different functions for "expression", the macro's closure last
C12_Witness ==
    /\ pc = "returned"
    /\ \E i, j \in 1..built :
          /\ i < j
          /\ Entries[i].call = "add_compile_function"
          /\ Entries[j].call = "add_compile_function"
          /\ Entries[i].name = "expression"
          /\ Entries[j].name = "expression"
          /\ Entries[j].f = "join_doubled"
    /\ \E node \in NodesOf(tokenized_string) : node.s = "expression"

----------------------------------------------------------------------------
(* Vocabulary of the token trees *)

\* every offset of the path is in range and every step but the last lands on a node
RECURSIVE Resolvable(_, _)
Resolvable(of, path) ==
    \/ path = <<>>
    \/ /\ of.t = "N"
       /\ path[1] < Len(of.sub)
       /\ Resolvable(of.sub[path[1] + 1], Tail(path))

\* the token reached by following the child offsets of a resolvable path in order
RECURSIVE At(_, _)
At(of, path) == IF path = <<>> THEN of ELSE At(of.sub[path[1] + 1], Tail(path))

\* the paths of the descendants of a token
DescendantPaths(of) == {path \in TokenIndexes(of) : path # <<>> /\ Resolvable(of, path)}

\* p comes before q in a left-to-right pre-order walk: p leads to an ancestor of q's
\* token, or branches off to the left of q
Before(p, q) ==
    \/ Len(p) < Len(q) /\ SubSeq(q, 1, Len(p)) = p
    \/ \E k \in 1..Len(p) :
          /\ k <= Len(q)
          /\ SubSeq(p, 1, k - 1) = SubSeq(q, 1, k - 1)
          /\ p[k] < q[k]

\* the path of the n-th descendant in pre-order
NthPath(of, n) ==
    CHOOSE p \in DescendantPaths(of) :
        Cardinality({q \in DescendantPaths(of) : Before(q, p)}) = n - 1

----------------------------------------------------------------------------
(* C13 *)

\* C13 (token path resolution is total): Token::get and Token::get_mut return an
\* Option for every token and every path, never aborting: None for the empty path,
\* for a Terminal, for a path with an offset out of range and for a path one of
\* whose non-final steps lands on a Terminal; otherwise Some of the descendant
\* reached by following the child offsets in order. get_mut resolves every path to
\* the same token as get.
C13_PathResolution ==
    method \in {"get", "get_mut"} =>
        /\ token_index = <<>> => returned = None
        /\ receiver.t = "T" => returned = None
        /\ returned = IF token_index # <<>> /\ Resolvable(receiver, token_index)
                      THEN Some(At(receiver, token_index))
                      ELSE None
        /\ Token_get_mut(receiver, token_index) = Token_get(receiver, token_index)

\* a path of three offsets was resolved to a descendant
C13_Witness ==
    /\ method = "get"
    /\ Len(token_index) = 3
    /\ returned.some
    /\ returned.value.t = "T"

----------------------------------------------------------------------------
(* C14 *)

\* C14 (descendant listing is left-to-right pre-order): get_descendant_tokens lists
\* every descendant once per occurrence and not the node itself, the n-th entry
\* being the descendant that is n-th in pre-order, so a node is directly followed
\* by its own descendants and an ancestor precedes its descendants; the Terminals
\* of the list, in order, carry the text that get_terminals returns.
C14_PreOrder ==
    method = "get_descendant_tokens" =>
        /\ Len(returned) = Cardinality(DescendantPaths(receiver))
        /\ \A n \in 1..Len(returned) : returned[n] = At(receiver, NthPath(receiver, n))
        /\ \A n \in 1..Len(returned) :
              returned[n].t = "N" =>
                  SubSeq(returned, n + 1, n + Len(get_descendant_tokens(returned[n])))
                      = get_descendant_tokens(returned[n])
        /\ LET terminals == SelectSeq(returned, is_terminal)
           IN NonTerminalToken_get_terminals(receiver)
                  = [n \in 1..Len(terminals) |-> terminals[n].s]

\* a listing in which a nested node is followed by its own child and then by a sibling
C14_Witness ==
    /\ method = "get_descendant_tokens"
    /\ Len(returned) = 4
    /\ returned[1].t = "N"
    /\ Len(returned[1].sub) = 1
    /\ returned[2].t = "N"
    /\ returned[4] = from_terminal("y")
    /\ Len(receiver.sub) = 2

----------------------------------------------------------------------------
(* C15 *)

\* the token occurs strictly below the node
IsDescendant(of, descendant) ==
    \E path \in DescendantPaths(of) : At(of, path) = descendant

\* C15 (deep find-first), as claimed: find_descendant(sym) returns Some(t) with t a
\* descendant of the node that is itself of type sym whenever contains_descendant(sym)
\* is true, and None otherwise; find_descendant_mut returns the same token.
C15_FindsTokenOfType ==
    method \in {"find_descendant", "find_descendant_mut"} =>
        /\ contains_descendant(receiver, type_arg) =>
              /\ returned.some
              /\ IsDescendant(receiver, returned.value)
              /\ TokenEqSymbol(returned.value, type_arg)
        /\ ~contains_descendant(receiver, type_arg) => returned = None
        /\ find_descendant_mut(receiver, type_arg) = find_descendant(receiver, type_arg)

----------------------------------------------------------------------------
(* Vocabulary of the rule texts *)

\* the character at position i (1-based) of the right-hand side lies between an
\* opening double quote and the next double quote
InLiteral(expression, i) ==
    Cardinality({j \in 1..(i - 1) : expression[j] = "\""}) % 2 = 1

\* the positions read so far that hold the character outside every quoted literal
ReadOutsideLiterals(char) ==
    {i \in 1..lexer.index : lexer.expression[i] = char /\ ~InLiteral(lexer.expression, i)}

\* the symbols pushed so far, choice after choice
RECURSIVE SymbolsOf(_)
SymbolsOf(expr) == IF expr = <<>> THEN <<>> ELSE Head(expr) \o SymbolsOf(Tail(expr))

IsNonTerminal(symbol) == symbol.k = "N"

\* the rule text <a>::= ">"
greater_than_rule == <<"<", "a", ">", ":", ":", "=", " ", "\"", ">", "\"">>

----------------------------------------------------------------------------
(* C16 *)

\* C16 (quoted literals are opaque to the rule lexer), as claimed: while
\* non_terminal_symbol_from_rule scans a rule, '<', '>' and '|' between an opening
\* and a closing double quote never push a non-terminal symbol and never start a new
\* choice: the non-terminal symbols pushed are those closed by a '>' outside the
\* literals, the choices those opened by a '|' outside them; <a> ::= ">" yields the
\* single choice [Terminal(">")].
C16_QuotedLiteralsOpaque ==
    /\ lexer.pc = "scan" =>
          /\ Len(SelectSeq(SymbolsOf(lexer.symbolized_expression), IsNonTerminal))
                = Cardinality(ReadOutsideLiterals(">"))
          /\ lexer.choice_index = Cardinality(ReadOutsideLiterals("|"))
    /\ (lexer.pc = "returned" /\ rule_string = greater_than_rule) =>
          lexer.symbol.rule = << <<Terminal(<<">">>)>> >>

----------------------------------------------------------------------------
(* C17 *)

\* every '<' outside the literals is closed by a '>' before the next '<', and every
\* '>' outside the literals closes a '<'
RECURSIVE BracketsBalanced(_, _, _)
BracketsBalanced(expression, i, open) ==
    IF i > Len(expression) THEN ~open
    ELSE IF InLiteral(expression, i) \/ expression[i] \notin {"<", ">"}
    THEN BracketsBalanced(expression, i + 1, open)
    ELSE IF expression[i] = "<" THEN ~open /\ BracketsBalanced(expression, i + 1, TRUE)
    ELSE open /\ BracketsBalanced(expression, i + 1, FALSE)

\* the rule text lacks "::=", or its right-hand side has an unterminated quoted
\* literal or an unbalanced angle bracket
Malformed(string) ==
    \/ ~split_once(string).some
    \/ LET expression == split_once(string).value.expression
       IN \/ Cardinality({j \in 1..Len(expression) : expression[j] = "\""}) % 2 = 1
          \/ ~BracketsBalanced(expression, 1, FALSE)

\* C17 (malformed rule text is fatal), as claimed: non_terminal_symbol_from_rule
\* returns a symbol only for a rule text that has the ::= operator and whose
\* right-hand side has every quoted literal terminated and every angle bracket
\* balanced; for every other text it aborts.
C17_MalformedIsFatal ==
    lexer.pc = "returned" => ~Malformed(rule_string)

----------------------------------------------------------------------------
(* C18 *)

Letters == {"a", "b", "c", "d", "e", "f", "g", "h", "i", "j", "k", "l", "m",
            "n", "o", "p", "q", "r", "s", "t", "u", "v", "w", "x", "y", "z"}

\* two lowercase words separated by one space
TwoWords(string) ==
    \E k \in 2..(Len(string) - 1) :
        /\ string[k] = " "
        /\ \A i \in 1..Len(string) : i # k => string[i] \in Letters

\* C18 (documented root-token grammar), as claimed: with syntax, word, letter and
\* whitespace declared in this order at priority 0, symbolize_string of two
\* lowercase words separated by a space returns a vector of length 1 whose only
\* token is a syntax node, so compiles_to_root_token returns true.
C18_DocumentedRoot ==
    (Entries = syntax_grammar /\ TwoWords(input)) =>
        /\ pc # "panicked"
        /\ pc = "returned" =>
              /\ Len(tokenized_string) = 1
              /\ tokenized_string[1].t = "N"
              /\ tokenized_string[1].s = "syntax"
        /\ pc = "root_tested" => root

----------------------------------------------------------------------------
(* C19 *)

\* the token is a node with the label, covering the text
Covers(of, label, text) == of.t = "N" /\ of.s = label /\ get_terminals(of) = text

\* C19 (documented expression tree), as claimed: with expression, digit and operator
\* declared in this order at priority 0, symbolize_string("2*4-4/5") returns a single
\* root expression whose three children are, in order, an expression covering
\* "2*4", the operator covering "-", and an expression covering "4/5".
C19_DocumentedTree ==
    (Entries = documented_expression_grammar /\ input = documented_expression
     /\ pc = "returned") =>
        /\ Len(tokenized_string) = 1
        /\ tokenized_string[1].t = "N"
        /\ tokenized_string[1].s = "expression"
        /\ Len(tokenized_string[1].sub) = 3
        /\ Covers(tokenized_string[1].sub[1], "expression", <<"2", "*", "4">>)
        /\ Covers(tokenized_string[1].sub[2], "operator", <<"-">>)
        /\ Covers(tokenized_string[1].sub[3], "expression", <<"4", "/", "5">>)

----------------------------------------------------------------------------
(* C20 *)

\* the symbol a matches in the input
MatchesSelfUnit == Entries = self_unit_grammar /\ \E i \in 1..Len(input) : input[i] = "x"

\* nodes labelled a nested in each other down from the token
RECURSIVE Wrappings(_)
Wrappings(of) ==
    IF of.t = "N" /\ of.s = "a" /\ Len(of.sub) = 1 THEN 1 + Wrappings(of.sub[1]) ELSE 0

\* an iteration of the recursive loop of a stays in the loop, whatever was done before
C20_LoopStep ==
    (MatchesSelfUnit /\ pc = "recursive") => pc' = "recursive"

\* C20 (undetected non-termination): with <a> ::= "x" | <a> and an input in which a
\* matches, symbolize_string never returns and nothing aborts it: once in the
\* recursive loop of symbolize_vec it stays there, every iteration finding a match
\* again and wrapping every a token once more.
C20_NeverReturns ==
    /\ [](MatchesSelfUnit => pc \in {"loop", "check", "non_recursive", "recursive"})
    /\ []((MatchesSelfUnit /\ pc = "recursive") =>
            /\ recursive_ranges # <<>>
            /\ \A i \in 1..Len(tokenized_string) :
                  input[i] = "x" => Wrappings(tokenized_string[i]) = rec_iters + 1)
    /\ [][C20_LoopStep]_vars

\* the loop has wrapped the token of an "x" several times
C20_Witness ==
    /\ MatchesSelfUnit
    /\ pc = "recursive"
    /\ rec_iters >= 3
    /\ \E i \in 1..Len(tokenized_string) : Wrappings(tokenized_string[i]) >= 4

----------------------------------------------------------------------------
(* C21 *)

\* the substring of the input that the i-th top-level token covers
CoveredSubstring(i) ==
    LET start == Len(Flatten(SubSeq(tokenized_string, 1, i - 1)))
    IN SubSeq(input, start + 1, start + Len(get_terminals(tokenized_string[i])))

\* C21 (pass-through is identity): a top-level token without a registered compile
\* function, Terminal or Node, contributes exactly the substring of the input it
\* covers; so with no compile function registered at all, compile_string returns
\* the input exactly.
C21_PassThrough ==
    /\ pc \in {"returned", "map", "compiled"} =>
          \A i \in 1..Len(tokenized_string) :
              (tokenized_string[i].t = "T"
               \/ tokenized_string[i].s \notin DOMAIN compile_functions) =>
                  LET piece == compile_top_level(compile_functions, tokenized_string[i])
                  IN /\ piece.ok
                     /\ piece.calls = <<>>
                     /\ piece.value = CoveredSubstring(i)
    /\ (pc = "compiled" /\ DOMAIN compile_functions = {}) => compiled = input

\* an input collapsed into nodes was compiled without any compile function
C21_Witness ==
    /\ pc = "compiled"
    /\ DOMAIN compile_functions = {}
    /\ Len(input) >= 3
    /\ \E i \in 1..Len(tokenized_string) :
          tokenized_string[i].t = "N" /\ Len(get_terminals(tokenized_string[i])) >= 2


----------------------------------------------------------------------------
(* C22 *)

\* no two of the given ranges share an index or cross: one ends where or before the
\* other starts
PairwiseDisjoint ==
    \A i, j \in 1..Len(given_ranges) :
        i # j => \/ given_ranges[i].end <= given_ranges[j].start
                 \/ given_ranges[j].end <= given_ranges[i].start

\* every given range ends inside the given vector
InBounds == \A i \in 1..Len(given_ranges) : given_ranges[i].end <= Len(given_vec)

\* no given range that is empty starts where another given range starts
NoEmptyRangeAtAStart ==
    \A i, j \in 1..Len(given_ranges) :
        (i # j /\ given_ranges[i].start = given_ranges[i].end)
            => given_ranges[i].start # given_ranges[j].start

\* the element the reducer returns for the elements of the given vector in a range
Reduced(range) ==
    from_non_terminal(reducer_name, SubSeq(given_vec, range.start + 1, range.end))

\* the given ranges that start at a position, the empty ones and the others
EmptyAt(p) ==
    {i \in 1..Len(given_ranges) :
        given_ranges[i].start = p /\ given_ranges[i].end = p}

NonEmptyAt(p) ==
    {i \in 1..Len(given_ranges) :
        given_ranges[i].start = p /\ given_ranges[i].end > p}

\* the given vector from position p on, with each range replaced at its position by
\* the reducer's element for the elements of the range
RECURSIVE EachRangeReplaced(_)
EachRangeReplaced(p) ==
    IF p > Len(given_vec) THEN <<>>
    ELSE (IF EmptyAt(p) = {} THEN <<>> ELSE <<Reduced(Range(p, p))>>)
         \o (IF NonEmptyAt(p) # {}
             THEN LET range == given_ranges[CHOOSE i \in NonEmptyAt(p) : TRUE]
                  IN <<Reduced(range)>> \o EachRangeReplaced(range.end)
             ELSE IF p = Len(given_vec) THEN <<>>
             ELSE <<given_vec[p + 1]>> \o EachRangeReplaced(p + 1))

RECURSIVE SumOfShrinks(_)
SumOfShrinks(i) ==
    IF i = 0 THEN 0
    ELSE (given_ranges[i].end - given_ranges[i].start - 1) + SumOfShrinks(i - 1)

\* the elements of the given vector that lie in none of the given ranges, in order
OutsideAllRanges ==
    LET Outside(p) == \A i \in 1..Len(given_ranges) :
                          ~(given_ranges[i].start <= p /\ p < given_ranges[i].end)
        RECURSIVE from(_)
        from(p) == IF p >= Len(given_vec) THEN <<>>
                   ELSE (IF Outside(p) THEN <<given_vec[p + 1]>> ELSE <<>>) \o from(p + 1)
    IN from(0)

\* the elements of a vector that no reducer made
NotReduced(vec) ==
    LET RECURSIVE from(_)
        from(i) == IF i > Len(vec) THEN <<>>
                   ELSE (IF is_terminal(vec[i]) THEN <<vec[i]>> ELSE <<>>) \o from(i + 1)
    IN from(1)

\* what the call of replace_ranges is to have done
RangesReplaced ==
    /\ replaced_vec.ok
    /\ replaced_vec.vec = EachRangeReplaced(0)
    /\ Len(replaced_vec.vec) = Len(given_vec) - SumOfShrinks(Len(given_ranges))
    /\ NotReduced(replaced_vec.vec) = OutsideAllRanges
    /\ given_ranges = <<>> => replaced_vec.vec = given_vec

----------------------------------------------------------------------------
(* C23 *)

\* the ranges the next call of replace_ranges in symbolize_vec is given
RangesPassed ==
    IF pc = "non_recursive"
    THEN get_ranges_of_possible_non_recursive_symbolization(sorted_rules[idx].symbol,
                                                            tokenized_string)
    ELSE IF pc = "recursive" THEN recursive_ranges
    ELSE <<>>

\* two ranges share an index
Overlap(a, b) == a.start < b.end /\ b.start < a.end

\* C23: every call that symbolize_vec makes to replace_ranges, for the non-recursive
\* choices and in each iteration over the recursive choices, passes ranges that are
\* pairwise disjoint and contain no range twice
C23_DisjointRangesPassed ==
    \A i, j \in 1..Len(RangesPassed) :
        i # j => /\ ~Overlap(RangesPassed[i], RangesPassed[j])
                 /\ RangesPassed[i] # RangesPassed[j]

----------------------------------------------------------------------------
(* C24 *)

\* the index ranges [i, i+k) of tokens such that some choice has length k and its
\* j-th symbol matches the (i+j)-th token for every j
MatchingWindows(tokens, choices) ==
    {r \in {Range(i, e) : i \in 0..Len(tokens), e \in 0..Len(tokens)} :
        \E c \in 1..Len(choices) :
            /\ Len(choices[c]) = r.end - r.start
            /\ \A j \in 1..Len(choices[c]) :
                   SymbolMatches(choices[c][j], tokens[r.start + j])}

\* the choices with every Terminal(t) turned into NonTerminal(t) and every
\* NonTerminal(n) into Terminal(n)
KindsSwapped(choices) ==
    [c \in 1..Len(choices) |->
        [j \in 1..Len(choices[c]) |->
            IF choices[c][j].k = "T" THEN NonTerminal(choices[c][j].s)
            ELSE Terminal(choices[c][j].s)]]

\* the ranges of a vector, as a set
RangeSet(ranges) == {ranges[i] : i \in 1..Len(ranges)}

\* symbolize_vec of sorted_rules[idx] is about to match or is matching
Matching == pc \in {"check", "non_recursive", "recursive"}

\* C24: get_ranges_from_choices returns exactly the ranges [i, i+k) such that some
\* given choice has length k and matches the tokens from i on element-wise, a
\* Terminal(t) only a terminal of text t and a NonTerminal(n) only a node labeled n;
\* the set of ranges does not depend on the order of the choices, and overlapping
\* matching windows are all returned. Checked on the working sequence for the
\* symbol's choices, their reverse, its recursive and non-recursive choices, and the
\* choices with terminals and non-terminals of the same name exchanged.
C24_WindowMatching ==
    Matching =>
        LET self == sorted_rules[idx].symbol
            Returned(choices) == RangeSet(get_ranges_from_choices(tokenized_string, choices))
        IN /\ \A choices \in {self.rule, reverse(self.rule), get_recursive_choices(self),
                              get_non_recursive_choices(self), KindsSwapped(self.rule)} :
                  Returned(choices) = MatchingWindows(tokenized_string, choices)
           /\ Returned(self.rule) = Returned(reverse(self.rule))
           /\ Returned(KindsSwapped(self.rule)) = {}

\* two overlapping windows are returned for a symbol of several choices, of which a
\* choice after the first matched
C24_Witness ==
    /\ Matching
    /\ LET self == sorted_rules[idx].symbol
           ranges == get_ranges_from_choices(tokenized_string, self.rule)
       IN /\ Len(self.rule) >= 2
          /\ \E i, j \in 1..Len(ranges) : i # j /\ Overlap(ranges[i], ranges[j])
          /\ ranges_of_choice(tokenized_string, self.rule[1]) = <<>>

----------------------------------------------------------------------------
(* C25 *)

\* a choice references the symbol of a name
References(choice, name) ==
    \E j \in 1..Len(choice) : choice[j].k = "N" /\ choice[j].s = name

\* the choices of a symbol that reference its own name, and those that do not
RecursiveChoices(symbol) ==
    LET recursive(choice) == References(choice, symbol.name)
    IN SelectSeq(symbol.rule, recursive)

NonRecursiveChoices(symbol) ==
    LET non_recursive(choice) == ~References(choice, symbol.name)
    IN SelectSeq(symbol.rule, non_recursive)

\* the sequence with the windows matching the choices replaced by nodes of the symbol
WindowsReplaced(tokens, symbol, choices) ==
    replace_ranges(tokens, get_ranges_from_choices(tokens, choices), symbol.name)

\* the symbol whose symbolize_vec call is running
Current == sorted_rules[idx].symbol

\* the first step of a symbolize_vec call replaces the windows that match the
\* non-recursive choices in the incoming sequence, and the recursive phase follows
NonRecursiveFirst ==
    pc = "non_recursive" =>
        LET r == WindowsReplaced(tokenized_string, Current, NonRecursiveChoices(Current))
        IN IF r.ok
           THEN tokenized_string' = r.vec /\ pc' = "recursive" /\ idx' = idx
           ELSE pc' = "panicked"

\* a step of the recursive phase replaces the windows that match the recursive choices
\* in the sequence as it is now, and the phase goes on in the same call exactly when
\* a recursive choice matches the new sequence; no non-recursive replacement follows
\* in this call
RecursiveUntilNoneMatches ==
    pc = "recursive" =>
        LET r == WindowsReplaced(tokenized_string, Current, RecursiveChoices(Current))
        IN IF r.ok
           THEN /\ tokenized_string' = r.vec
                /\ IF MatchingWindows(r.vec, RecursiveChoices(Current)) # {}
                   THEN pc' = "recursive" /\ idx' = idx
                   ELSE pc' \in {"check", "end_of_pass"} /\ idx' = idx + 1
           ELSE pc' = "panicked"

\* the call is entered in its non-recursive phase, with the sequence it is given
CallStartsNonRecursive ==
    /\ pc = "check" => (pc' = "non_recursive" /\ tokenized_string' = tokenized_string)
    /\ pc' = "non_recursive" => pc = "check"
    /\ pc' = "recursive" => pc \in {"non_recursive", "recursive"}

\* C25: within one symbolize_vec call every replacement for a non-recursive choice
\* happens before any replacement for a recursive choice: the non-recursive choices
\* are matched once against the incoming sequence, then the recursive choices are
\* re-matched against the updated sequence and replaced until none matches
C25_PhaseOrder ==
    /\ [](pc = "recursive" =>
            recursive_ranges = get_ranges_from_choices(tokenized_string,
                                                       RecursiveChoices(Current)))
    /\ [][NonRecursiveFirst /\ RecursiveUntilNoneMatches /\ CallStartsNonRecursive]_vars

\* the children of the node match the choice element-wise
ChildrenMatch(node, choice) ==
    /\ Len(node.sub) = Len(choice)
    /\ \A j \in 1..Len(choice) : SymbolMatches(choice[j], node.sub[j])

\* the recursive phase of a call is in its third iteration or later with a window
\* still matching, and the sequence holds a node its non-recursive phase made and a
\* node its recursive phase made
C25_Witness ==
    /\ pc = "recursive"
    /\ rec_iters >= 2
    /\ recursive_ranges # <<>>
    /\ ~MatchesSelfUnit
    /\ \E node \in NodesOf(tokenized_string) :
           /\ node.s = Current.name
           /\ \E c \in 1..Len(NonRecursiveChoices(Current)) :
                  ChildrenMatch(node, NonRecursiveChoices(Current)[c])
    /\ \E node \in NodesOf(tokenized_string) :
           /\ node.s = Current.name
           /\ \E c \in 1..Len(RecursiveChoices(Current)) :
                  ChildrenMatch(node, RecursiveChoices(Current)[c])

----------------------------------------------------------------------------
(* C26 *)

\* this step is the return of symbolize_vec for the symbol at idx
SymbolizeVecReturns ==
    pc = "recursive" /\ pc' \in {"check", "end_of_pass"}

\* C26: whenever symbolize_vec(symbol, sequence) returns, no window of the resulting
\* sequence matches any choice of that symbol, recursive or non-recursive, and
\* further_symbolization_possible(symbol) is false
C26_LocallyComplete ==
    [][SymbolizeVecReturns =>
          /\ ~SymbolHasWindow(tokenized_string', Current)
          /\ ~further_symbolization_possible(Current, tokenized_string')]_vars

\* symbolize_vec has just returned for a symbol that changed the sequence in this pass
\* and has a node made by a recursive choice in it; several tokens are left
C26_Witness ==
    /\ pc \in {"check", "end_of_pass"}
    /\ idx >= 2
    /\ modified_this_iteration
    /\ Len(tokenized_string) >= 2
    /\ LET returned_from == sorted_rules[idx - 1].symbol
       IN /\ \E i \in 1..Len(tokenized_string) :
                 /\ tokenized_string[i].t = "N"
                 /\ tokenized_string[i].s = returned_from.name
                 /\ \E c \in 1..Len(RecursiveChoices(returned_from)) :
                        ChildrenMatch(tokenized_string[i], RecursiveChoices(returned_from)[c])
          /\ NonRecursiveChoices(returned_from) # <<>>
          /\ ~SymbolHasWindow(tokenized_string, returned_from)

----------------------------------------------------------------------------
(* C27 *)

\* the number of nodes of a token sequence, at top level and below
RECURSIVE NodeCount(_)
NodeCount(tokens) ==
    IF tokens = <<>> THEN 0
    ELSE (IF tokens[1].t = "N" THEN 1 + NodeCount(tokens[1].sub) ELSE 0)
         + NodeCount(Tail(tokens))

\* a full pass of the loop has been made
PassDone == pc = "end_of_pass"

\* the pass just made is the final one: the loop stops after it
FinalPass == ~modified_this_iteration

\* C27 as stated: every full pass of the outer loop of symbolize_string either strictly
\* reduces the length of the working top-level sequence or is the final pass
C27_EveryPassShortens ==
    PassDone => (Len(tokenized_string) < Len(pass_start) \/ FinalPass)

\* C27, amended: every full pass either replaces a window by a node, so that the tree
\* gains a node while the top-level sequence does not grow, or leaves the sequence as
\* it was and is the final pass, after which the loop stops; the loop goes on after
\* every other pass
C27_PassProgress ==
    /\ [](PassDone =>
            IF FinalPass
            THEN tokenized_string = pass_start
            ELSE /\ NodeCount(tokenized_string) > NodeCount(pass_start)
                 /\ Len(tokenized_string) <= Len(pass_start))
    /\ [][PassDone => (pc' = IF FinalPass THEN "returned" ELSE "loop")]_vars

\* a pass that is not final has wrapped several tokens in place: the sequence is as
\* long as before
C27_Witness ==
    /\ PassDone
    /\ ~FinalPass
    /\ Len(tokenized_string) = Len(pass_start)
    /\ Len(pass_start) >= 2

----------------------------------------------------------------------------
(* C28 *)

\* the names of the registered symbols
SymbolNames == {rules[r].symbol.name : r \in 1..Len(rules)}

\* a symbol of the first name has a choice that is only a reference to the second
UnitReference(a, b) ==
    \E r \in 1..Len(rules) :
        /\ rules[r].symbol.name = a
        /\ \E c \in 1..Len(rules[r].symbol.rule) : rules[r].symbol.rule[c] = <<NonTerminal(b)>>

\* the second name is reached from the first through at most n unit references, one
\* at least
RECURSIVE UnitReaches(_, _, _)
UnitReaches(a, b, n) ==
    /\ n >= 1
    /\ \/ UnitReference(a, b)
       \/ \E via \in SymbolNames : UnitReference(a, via) /\ UnitReaches(via, b, n - 1)

\* some symbol reaches itself through choices that are a single non-terminal reference
HasUnitCycle == \E a \in SymbolNames : UnitReaches(a, a, Cardinality(SymbolNames))

\* symbolize_string has stopped: it returned or a panic ended it
Stopped == pc \in {"returned", "panicked"}

\* C28: for every grammar in which no symbol reaches itself through choices that are
\* a single non-terminal reference, symbolize_string stops on every input: every
\* recursive loop of symbolize_vec and the loop over the passes come to an end
C28_Terminates ==
    /\ [][symbolize_string_running => position' # position]_vars
    /\ (pc = "loop" /\ ~HasUnitCycle) ~> Stopped

\* symbolize_string has returned after a recursive loop of several iterations, for a
\* grammar without unit cycle
C28_Witness ==
    /\ pc = "returned"
    /\ ~HasUnitCycle
    /\ rec_iters >= 1
    /\ \E node \in NodesOf(tokenized_string) :
           \E child \in 1..Len(node.sub) :
               /\ node.sub[child].t = "N" /\ node.sub[child].s = node.s
               /\ \E grandchild \in 1..Len(node.sub[child].sub) :
                      /\ node.sub[child].sub[grandchild].t = "N"
                      /\ node.sub[child].sub[grandchild].s = node.s

----------------------------------------------------------------------------
(* C29 *)

\* the children of the node match, element-wise, one of the choices of a registered
\* symbol that has the label of the node
Sound(node) ==
    \E r \in 1..Len(rules) :
        /\ rules[r].symbol.name = node.s
        /\ \E c \in 1..Len(rules[r].symbol.rule) :
               ChildrenMatch(node, rules[r].symbol.rule[c])

\* C29: every node made during symbolize_string, and so every node at any depth of
\* the returned tree, has a child sequence that matches element-wise one of the
\* choices of a grammar symbol of its label
C29_TreeSound ==
    Symbolizing => \A node \in NodesOf(tokenized_string) : Sound(node)

----------------------------------------------------------------------------
(* C30 *)

\* every choice of every registered symbol has a symbol in it
AllChoicesNonEmpty ==
    \A r \in 1..Len(rules) :
        \A c \in 1..Len(rules[r].symbol.rule) : rules[r].symbol.rule[c] # <<>>

\* the ranges the next call of replace_ranges is given, in the order in which
\* replace_range processes them, and the sequence when the range at a place is reached
ProcessingOrder == replace_order(RangesPassed)

RECURSIVE SequenceAt(_)
SequenceAt(place) ==
    IF place = 1 THEN [ok |-> TRUE, vec |-> tokenized_string]
    ELSE LET before == SequenceAt(place - 1)
         IN IF before.ok
            THEN replace_range(before.vec, ProcessingOrder[place - 1], Current.name)
            ELSE before

\* C30: for every grammar whose choices are all non-empty and every input, each range
\* that replace_range processes during symbolization ends within the working sequence
\* as it is when the range is processed, so no removal past the end is attempted and
\* symbolize_string does not abort
C30_NeverAborts ==
    AllChoicesNonEmpty =>
        /\ pc # "panicked"
        /\ pc \in {"non_recursive", "recursive"} =>
              \A place \in 1..Len(ProcessingOrder) :
                  /\ SequenceAt(place).ok
                  /\ ProcessingOrder[place].end <= Len(SequenceAt(place).vec)


====
